---- MODULE Spec2Model ----
(***************************************************************************)
(* The serial <-> MQTT bridge daemons of scale-printer-mqtt.                *)
(*                                                                         *)
(* Each daemon runs two worker threads, a serial handler and an MQTT       *)
(* handler, coupled only through queue.Queue objects.  Every worker's      *)
(* run() loop is a process with a program counter; the other side of a     *)
(* queue, the serial device and the broker are the environment.            *)
(***************************************************************************)
EXTENDS Integers, Sequences, FiniteSets, TLC

\* ------------------------------------------------------------- bounds
\* payloads the producer side puts on a queue in one run
MaxMsgs == 2
\* write / publish failures the environment injects in one run
MaxFail == 2
\* successful serial.Serial(...) opens in one run (handle identities)
MaxOpens == 2
\* bytes the scale sends in one run
MaxRead == 3
\* broker connect() calls in one run
MaxConnects == 2

\* connect attempts of a run the history records
MaxTrace == 3
\* Calls a caller other than run() makes on one serial handler.
MaxCalls == 4

\* ---------------------------------------------------- program constants
LF == 10
SPACE == 32
REPLACEMENT == 65533
QUESTION_MARK == 63
MQTT_ERR_SUCCESS == 0
MQTT_ERR_NO_CONN == 4
MQTT_ERR_QUEUE_SIZE == 15
RC_UNSET == -1
CONNACK_REFUSED == 5
MQTT_QOS_DEFAULT == 2

None == 0

VARIABLES
    daemon,                 \* "printer" | "scale": which daemon's classes run
    env,                    \* what the environment supplies in this run:
                            \* [msgs: payloads for a queue, rx: bytes of the
                            \* scale, faults: failing writes and publishes,
                            \* trace: connect attempts the history records,
                            \* gets: queue gets the history records]
    mqtt_to_serial_queue,   \* queue.Queue: broker -> serial
    serial_to_mqtt_queue,   \* queue.Queue: serial -> broker (scale only)
    \* --- serial handler thread (PrinterSerialHandler / ScaleSerialHandler)
    serial_pc,              \* position of run()
    serial_running,         \* self.running
    ser,                    \* self.ser: None or the handle's identity
    is_open,                \* self.ser.is_open
    message_to_print,       \* run()'s local of the printer (<<>>: unset)
    command,                \* run()'s local of the scale (<<>>: unset)
    buffer,                 \* run()'s local bytearray of the scale
    mock_mode,              \* self.mock_mode
    \* --- MQTT handler thread (ScaleMqttHandler / PrinterMqttHandler)
    mqtt_pc,                \* position of run()
    mqtt_running,           \* self.running
    client,                 \* self.client: "none" | "wired" (handlers attached)
    connection_rc,          \* self.connection_rc
    is_connected,           \* self.client.is_connected()
    loop_running,           \* paho's background network thread is alive
    connack_pending,        \* connect() issued, CONNACK not yet delivered
    message_str,            \* run()'s local of the scale MQTT handler
    \* --- history (what the transports and the environment saw)
    opens,                  \* number of handles opened so far
    closed,                 \* the handles close() was called on, in order
    m2s_puts,               \* payloads the producer put on mqtt_to_serial_queue
    s2m_puts,               \* payloads the producer put on serial_to_mqtt_queue
    write_log,              \* ser.write calls: [h, msg, data, ok]
    read_log,               \* ser.read(1) results: [h, byte]
    conn_lines,             \* lines put on serial_to_mqtt_queue: [h, line]
    publish_log,            \* client.publish calls: [msg, data, rc, raised, session]
    connect_calls,          \* client.connect calls so far
    got,                    \* the queue and the producer's count at the last get()
    msgs_in,                \* the MQTTMessages handed to _on_message
    stop_called,            \* the stop() calls: <<thread, where its run() was>>,
                            \* the place being "start", "sleep", "wait" or "busy"
    subscribe_calls,        \* the first env.trace client.subscribe calls: the topics
    cleanup_calls,          \* the client calls of run()'s cleanup, in order
    connect_log,            \* the first env.trace _connect_serial calls:
                            \* [exists, open]
    broker_log,             \* the first env.trace client.connect outcomes
    api_calls,              \* methods a caller other than run() invoked
    qos,                    \* self.qos, the configured quality of service
    qos_used,               \* the qos arguments of the subscribe and publish
                            \* calls (recorded when env.trace > 0)
    handoffs,               \* the first env.gets get() calls of the printer's
                            \* serial thread: [msg, puts], puts the producer's
                            \* count then
    requeued,               \* put() calls a consumer made to re-queue, per queue
    task_done_calls,        \* task_done() calls, per queue
    main_pc,                \* where main() is: "off" when it is not modelled
    main_calls              \* main()'s start, stop and join calls, in order

queueVars == <<mqtt_to_serial_queue, serial_to_mqtt_queue>>
serialVars == <<serial_pc, serial_running, ser, is_open, message_to_print,
                command, buffer, mock_mode>>
mqttVars == <<mqtt_pc, mqtt_running, client, connection_rc, is_connected,
              loop_running, connack_pending, message_str>>
histVars == <<opens, closed, m2s_puts, s2m_puts, write_log, read_log,
              conn_lines, publish_log, connect_calls, got, msgs_in>>
traceVars == <<stop_called, subscribe_calls, cleanup_calls, connect_log,
               broker_log, api_calls>>
mainVars == <<main_pc, main_calls>>
vars == <<daemon, env, qos, qos_used, handoffs, requeued, task_done_calls,
          queueVars, serialVars, mqttVars,
          histVars, traceVars, mainVars>>

\* ------------------------------------------------------------ helpers
Last(s) == s[Len(s)]

Count(s, x) == Cardinality({i \in DOMAIN s : s[i] = x})

IsPrefix(s, t) == Len(s) <= Len(t) /\ SubSeq(t, 1, Len(s)) = s

\* bytes.decode('ascii', errors='replace') / buffer.decode(...)
DecodeAsciiReplace(bytes) ==
    [i \in DOMAIN bytes |-> IF bytes[i] < 128 THEN bytes[i] ELSE REPLACEMENT]

\* str.encode('ascii', errors='replace')
EncodeAsciiReplace(str) ==
    [i \in DOMAIN str |-> IF str[i] < 128 THEN str[i] ELSE QUESTION_MARK]

\* Where run() was when stop() was called: before its first statement, in a
\* reconnect sleep, in the wait for the connection result, or elsewhere.
StopPoint(pc) == IF pc \in {"start", "sleep", "wait"} THEN pc ELSE "busy"

\* stop() of the thread was called / was called when its run() was at pc
StopCalled(thread) == \E c \in stop_called : c[1] = thread

StoppedAt(thread, pc) == <<thread, pc>> \in stop_called

\* The failures injected so far.
Failures ==
    Cardinality({i \in DOMAIN write_log : ~write_log[i].ok})
    + Cardinality({i \in DOMAIN publish_log : publish_log[i].rc # MQTT_ERR_SUCCESS})

\* One more put() by the consumer of queue q / one more q.task_done().
Requeue(q) == [requeued EXCEPT ![q] = @ + 1]

TaskDone(q) == [task_done_calls EXCEPT ![q] = @ + 1]

\* ------------------------------------------------- serial environment
\* os.path.exists(device_path) and serial.Serial(...) as _connect_serial sees them
ConnectOutcomes == {"absent", "ok", "serial_exception", "other_exception"}

\* What one _connect_serial call saw: os.path.exists, and serial.Serial(...)
\* if it was called.
ConnectRecord(outcome) ==
    [exists |-> outcome # "absent",
     open |-> IF outcome = "absent" THEN "not_called" ELSE outcome]

LogConnect(outcome) ==
    connect_log' = IF Len(connect_log) < env.trace
                   THEN Append(connect_log, ConnectRecord(outcome))
                   ELSE connect_log

\* ser.write(payload)
WriteOutcomes == {"ok", "timeout", "serial_exception", "os_error"}

\* The driver (or a test double) reports the port closed although the worker
\* did not close it.
PortClosedUnexpectedly ==
    /\ ser # None /\ is_open
    /\ serial_pc \in {"loop", "body", "write", "read", "off"}
    /\ is_open' = FALSE
    /\ UNCHANGED <<daemon, env, qos, requeued, task_done_calls, qos_used, handoffs, mainVars, traceVars, queueVars, serial_pc, serial_running, ser,
                   message_to_print, command, buffer, mock_mode, mqttVars, histVars>>

\* ------------------------------------------- PrinterMqttHandler._on_message
PrintTopic == "print"
OtherTopic == "other"

PrinterPayloads == {<<65>>, <<200>>}

\* _on_message without the test of line 46
PrinterMqtt_on_message_NoEmptyCheck(topic, payload) ==
    /\ daemon = "printer"
    /\ Len(msgs_in) < env.msgs
    /\ msgs_in' = Append(msgs_in, [topic |-> topic, payload |-> payload])
    /\ IF topic = PrintTopic
       THEN /\ mqtt_to_serial_queue' =
                   Append(mqtt_to_serial_queue, DecodeAsciiReplace(payload))
            /\ m2s_puts' = Append(m2s_puts, DecodeAsciiReplace(payload))
       ELSE UNCHANGED <<mqtt_to_serial_queue, m2s_puts>>
    /\ UNCHANGED <<daemon, env, qos, requeued, task_done_calls, qos_used, handoffs, mainVars, traceVars, serial_to_mqtt_queue, serialVars, mqttVars, opens,
                   closed, s2m_puts, write_log, read_log, conn_lines,
                   publish_log, connect_calls, got>>

\* _on_message with decode('ascii') in strict mode: the UnicodeDecodeError
\* branch of line 53 drops the message
PrinterMqtt_on_message_StrictDecode(topic, payload) ==
    /\ daemon = "printer"
    /\ Len(msgs_in) < env.msgs
    /\ msgs_in' = Append(msgs_in, [topic |-> topic, payload |-> payload])
    /\ IF topic = PrintTopic /\ payload # <<>>
          /\ \A i \in DOMAIN payload : payload[i] < 128
       THEN /\ mqtt_to_serial_queue' = Append(mqtt_to_serial_queue, payload)
            /\ m2s_puts' = Append(m2s_puts, payload)
       ELSE UNCHANGED <<mqtt_to_serial_queue, m2s_puts>>
    /\ UNCHANGED <<daemon, env, qos, requeued, task_done_calls, qos_used, handoffs, mainVars, traceVars, serial_to_mqtt_queue, serialVars,
                   mqttVars, opens, closed, s2m_puts, write_log, read_log,
                   conn_lines, publish_log, connect_calls, got>>

\* lines 42-60
PrinterMqtt_on_message(topic, payload) ==
    /\ daemon = "printer"
    /\ Len(msgs_in) < env.msgs
    /\ msgs_in' = Append(msgs_in, [topic |-> topic, payload |-> payload])
    /\ IF topic = PrintTopic /\ payload # <<>>
       THEN /\ mqtt_to_serial_queue' =
                   Append(mqtt_to_serial_queue, DecodeAsciiReplace(payload))
            /\ m2s_puts' = Append(m2s_puts, DecodeAsciiReplace(payload))
       ELSE UNCHANGED <<mqtt_to_serial_queue, m2s_puts>>
    /\ UNCHANGED <<daemon, env, qos, requeued, task_done_calls, qos_used, handoffs, mainVars, traceVars, serial_to_mqtt_queue, serialVars, mqttVars, opens,
                   closed, s2m_puts, write_log, read_log, conn_lines,
                   publish_log, connect_calls, got>>

\* ------------------------------------------------ PrinterSerialHandler
\* a _disconnect_serial that forgets only a handle that is open
PrinterSerial_disconnect_serial_KeepsClosedHandle ==
    /\ closed' = IF ser # None /\ is_open THEN Append(closed, ser) ELSE closed
    /\ ser' = IF is_open THEN None ELSE ser
    /\ is_open' = FALSE

\* a _disconnect_serial that drops the handle without calling close()
PrinterSerial_disconnect_serial_NoClose ==
    /\ closed' = closed
    /\ ser' = None
    /\ is_open' = FALSE

PrinterSerial_disconnect_serial ==
    /\ closed' = IF ser # None /\ is_open THEN Append(closed, ser) ELSE closed
    /\ ser' = None
    /\ is_open' = FALSE

\* _connect_serial with the outcome the environment gives; the result is
\* whether it returned True.
PrinterSerial_connect_serial(outcome) ==
    /\ LogConnect(outcome)
    /\ CASE outcome = "ok" ->
               /\ ser' = opens + 1
               /\ is_open' = TRUE
               /\ opens' = opens + 1
         [] outcome = "absent" ->
               /\ UNCHANGED <<ser, is_open, opens>>
         [] OTHER ->
               /\ ser' = None
               /\ is_open' = FALSE
               /\ opens' = opens

PrinterSerial_RunStart ==
    /\ daemon = "printer" /\ serial_pc = "start"
    /\ serial_running' = TRUE
    /\ serial_pc' = "loop"
    /\ UNCHANGED <<daemon, env, qos, requeued, task_done_calls, qos_used, handoffs, mainVars, traceVars, queueVars, ser, is_open, message_to_print, command,
                   buffer, mock_mode, mqttVars, histVars>>

\* while self.running: false -> the final _disconnect_serial()
PrinterSerial_LoopExit ==
    /\ daemon = "printer" /\ serial_pc = "loop" /\ ~serial_running
    /\ PrinterSerial_disconnect_serial
    /\ serial_pc' = "done"
    /\ UNCHANGED <<daemon, env, qos, requeued, task_done_calls, qos_used, handoffs, mainVars, traceVars, queueVars, serial_running, message_to_print, command,
                   buffer, mock_mode, mqttVars, opens, m2s_puts, s2m_puts,
                   write_log, read_log, conn_lines, publish_log, connect_calls,
                   got, msgs_in>>

\* lines 70-71: not connected -> _disconnect_serial()
PrinterSerial_Reconnect ==
    /\ daemon = "printer" /\ serial_pc = "loop" /\ serial_running
    /\ ser = None \/ ~is_open
    /\ PrinterSerial_disconnect_serial
    /\ serial_pc' = "connect"
    /\ UNCHANGED <<daemon, env, qos, requeued, task_done_calls, qos_used, handoffs, mainVars, traceVars, queueVars, serial_running,
                   message_to_print, command, buffer, mock_mode, mqttVars, opens,
                   m2s_puts, s2m_puts, write_log, read_log, conn_lines,
                   publish_log, connect_calls, got, msgs_in>>

\* a loop that goes on to the queue after a failed _connect_serial()
PrinterSerial_ConnectNoSleep ==
    /\ daemon = "printer" /\ serial_pc = "connect"
    /\ \E outcome \in ConnectOutcomes :
          /\ outcome = "ok" => opens < MaxOpens
          /\ PrinterSerial_connect_serial(outcome)
          /\ serial_pc' = "body"
    /\ UNCHANGED <<stop_called, subscribe_calls, cleanup_calls, broker_log,
                   api_calls>>
    /\ UNCHANGED <<daemon, env, qos, requeued, task_done_calls, qos_used, handoffs, mainVars, queueVars, serial_running, message_to_print, command,
                   buffer, mock_mode, mqttVars, closed, m2s_puts, s2m_puts,
                   write_log, read_log, conn_lines, publish_log, connect_calls,
                   got, msgs_in>>

\* lines 72-74: _connect_serial(); on False the reconnect sleep
PrinterSerial_Connect ==
    /\ daemon = "printer" /\ serial_pc = "connect"
    /\ \E outcome \in ConnectOutcomes :
          /\ outcome = "ok" => opens < MaxOpens
          /\ PrinterSerial_connect_serial(outcome)
          /\ serial_pc' = IF outcome = "ok" THEN "body" ELSE "sleep"
    /\ UNCHANGED <<stop_called, subscribe_calls, cleanup_calls, broker_log,
                   api_calls>>
    /\ UNCHANGED <<daemon, env, qos, requeued, task_done_calls, qos_used, handoffs, mainVars, queueVars, serial_running, message_to_print, command,
                   buffer, mock_mode, mqttVars, closed, m2s_puts, s2m_puts,
                   write_log, read_log, conn_lines, publish_log, connect_calls,
                   got, msgs_in>>

PrinterSerial_Connected ==
    /\ daemon = "printer" /\ serial_pc = "loop" /\ serial_running
    /\ ser # None /\ is_open
    /\ serial_pc' = "body"
    /\ UNCHANGED <<daemon, env, qos, requeued, task_done_calls, qos_used, handoffs, mainVars, traceVars, queueVars, serial_running, ser, is_open,
                   message_to_print, command, buffer, mock_mode, mqttVars, histVars>>

\* queue.Queue.get() on a queue that is not empty: the item it returns and
\* the queue it leaves
QueueGetLifo(q) == [item |-> Last(q), rest |-> SubSeq(q, 1, Len(q) - 1)]

QueueGet(q) == [item |-> Head(q), rest |-> Tail(q)]

\* lines 77-78 and 104-106
PrinterSerial_Dequeue ==
    /\ daemon = "printer" /\ serial_pc = "body"
    /\ IF mqtt_to_serial_queue # <<>>
       THEN /\ message_to_print' = <<QueueGet(mqtt_to_serial_queue).item>>
            /\ mqtt_to_serial_queue' = QueueGet(mqtt_to_serial_queue).rest
            /\ handoffs' =
                  IF Len(handoffs) < env.gets
                  THEN Append(handoffs,
                          [msg |-> QueueGet(mqtt_to_serial_queue).item,
                           puts |-> Len(m2s_puts)])
                  ELSE handoffs
            /\ serial_pc' = "write"
       ELSE /\ UNCHANGED <<message_to_print, mqtt_to_serial_queue, handoffs>>
            /\ serial_pc' = "loop"
    /\ UNCHANGED <<daemon, env, qos, requeued, task_done_calls, qos_used, mainVars, traceVars, serial_to_mqtt_queue, serial_running, ser, is_open,
                   command, buffer, mock_mode, mqttVars, opens, closed, m2s_puts,
                   s2m_puts, write_log, read_log, conn_lines, publish_log,
                   connect_calls, got, msgs_in>>

\* Lines 77 and 78 taken one statement at a time, for the question whether
\* the get() can find the queue empty.
\* a get() that is called without looking at the queue
PrinterSerial_QueueUnchecked ==
    /\ daemon = "printer" /\ serial_pc = "body"
    /\ serial_pc' = "get"
    /\ UNCHANGED <<daemon, env, qos, requeued, task_done_calls, qos_used, handoffs, mainVars, traceVars, queueVars, serial_running, ser, is_open,
                   message_to_print, command, buffer, mock_mode, mqttVars, histVars>>

\* line 77: if not self.mqtt_to_serial_queue.empty()
PrinterSerial_QueueNotEmpty ==
    /\ daemon = "printer" /\ serial_pc = "body"
    /\ serial_pc' = IF mqtt_to_serial_queue # <<>> THEN "get" ELSE "loop"
    /\ UNCHANGED <<daemon, env, qos, requeued, task_done_calls, qos_used, handoffs, mainVars, traceVars, queueVars, serial_running, ser, is_open,
                   message_to_print, command, buffer, mock_mode, mqttVars, histVars>>

\* line 78: self.mqtt_to_serial_queue.get(), which blocks on an empty queue
PrinterSerial_Get ==
    /\ daemon = "printer" /\ serial_pc = "get"
    /\ mqtt_to_serial_queue # <<>>
    /\ message_to_print' = <<QueueGet(mqtt_to_serial_queue).item>>
    /\ mqtt_to_serial_queue' = QueueGet(mqtt_to_serial_queue).rest
    /\ handoffs' =
          IF Len(handoffs) < env.gets
          THEN Append(handoffs,
                  [msg |-> QueueGet(mqtt_to_serial_queue).item,
                   puts |-> Len(m2s_puts)])
          ELSE handoffs
    /\ serial_pc' = "write"
    /\ UNCHANGED <<daemon, env, qos, requeued, task_done_calls, qos_used, mainVars, traceVars, serial_to_mqtt_queue, serial_running, ser, is_open,
                   command, buffer, mock_mode, mqttVars, opens, closed, m2s_puts,
                   s2m_puts, write_log, read_log, conn_lines, publish_log,
                   connect_calls, got, msgs_in>>

\* lines 87-98: each except clause re-queues and disconnects
PrinterSerial_WriteFailedNoRequeue(m) ==
    /\ mqtt_to_serial_queue' = mqtt_to_serial_queue
    /\ PrinterSerial_disconnect_serial
    /\ requeued' = requeued

PrinterSerial_WriteFailedNoDisconnect(m) ==
    /\ mqtt_to_serial_queue' = Append(mqtt_to_serial_queue, m)
    /\ UNCHANGED <<closed, ser, is_open>>
    /\ requeued' = Requeue("m2s")

\* a re-queue that puts the payload back at the head of the queue
PrinterSerial_WriteFailedRequeueFirst(m) ==
    /\ mqtt_to_serial_queue' = <<m>> \o mqtt_to_serial_queue
    /\ PrinterSerial_disconnect_serial
    /\ requeued' = Requeue("m2s")

PrinterSerial_WriteFailed(m) ==
    /\ mqtt_to_serial_queue' = Append(mqtt_to_serial_queue, m)
    /\ PrinterSerial_disconnect_serial
    /\ requeued' = Requeue("m2s")

\* a write of the encoded payload without the line feed
PrinterSerial_WriteNoTerminator ==
    /\ daemon = "printer" /\ serial_pc = "write"
    /\ LET m == message_to_print[1]
           payload == EncodeAsciiReplace(m)
       IN IF ser # None /\ is_open
          THEN \E outcome \in WriteOutcomes :
                  /\ outcome # "ok" => Failures < env.faults
                  /\ write_log' = Append(write_log,
                        [h |-> ser, msg |-> m, data |-> payload,
                         ok |-> outcome = "ok"])
                  /\ IF outcome = "ok"
                     THEN /\ UNCHANGED <<mqtt_to_serial_queue, closed, ser,
                                         is_open, requeued>>
                          /\ task_done_calls' = TaskDone("m2s")
                     ELSE /\ PrinterSerial_WriteFailed(m)
                          /\ UNCHANGED task_done_calls
          ELSE /\ PrinterSerial_WriteFailed(m)
               /\ UNCHANGED <<write_log, task_done_calls>>
    /\ message_to_print' = <<>>
    /\ serial_pc' = "loop"
    /\ UNCHANGED <<daemon, env, qos, qos_used, handoffs, mainVars, traceVars, serial_to_mqtt_queue, serial_running, command, buffer,
                   mock_mode, mqttVars, opens, m2s_puts, s2m_puts, read_log,
                   conn_lines, publish_log, connect_calls, got, msgs_in>>

\* lines 79-103
PrinterSerial_Write ==
    /\ daemon = "printer" /\ serial_pc = "write"
    /\ LET m == message_to_print[1]
           payload == EncodeAsciiReplace(m) \o <<LF>>
       IN IF ser # None /\ is_open
          THEN \E outcome \in WriteOutcomes :
                  /\ outcome # "ok" => Failures < env.faults
                  /\ write_log' = Append(write_log,
                        [h |-> ser, msg |-> m, data |-> payload,
                         ok |-> outcome = "ok"])
                  /\ IF outcome = "ok"
                     THEN /\ UNCHANGED <<mqtt_to_serial_queue, closed, ser,
                                         is_open, requeued>>
                          /\ task_done_calls' = TaskDone("m2s")
                     ELSE /\ PrinterSerial_WriteFailed(m)
                          /\ UNCHANGED task_done_calls
          ELSE /\ PrinterSerial_WriteFailed(m)
               /\ UNCHANGED <<write_log, task_done_calls>>
    /\ message_to_print' = <<>>
    /\ serial_pc' = "loop"
    /\ UNCHANGED <<daemon, env, qos, qos_used, handoffs, mainVars, traceVars, serial_to_mqtt_queue, serial_running, command, buffer,
                   mock_mode, mqttVars, opens, m2s_puts, s2m_puts, read_log,
                   conn_lines, publish_log, connect_calls, got, msgs_in>>

\* time.sleep(self.reconnect_delay); continue
PrinterSerial_WakeUp ==
    /\ daemon = "printer" /\ serial_pc = "sleep"
    /\ serial_pc' = "loop"
    /\ UNCHANGED <<daemon, env, qos, requeued, task_done_calls, qos_used, handoffs, mainVars, traceVars, queueVars, serial_running, ser, is_open,
                   message_to_print, command, buffer, mock_mode, mqttVars, histVars>>

\* stop(), called once by another thread after start() returned: run() may
\* not have executed its first statement yet
Serial_stop ==
    /\ serial_pc \notin {"off", "done", "crashed"}
    /\ ~StopCalled("serial")
    /\ stop_called' = stop_called \cup {<<"serial", StopPoint(serial_pc)>>}
    /\ serial_running' = FALSE
    /\ UNCHANGED <<subscribe_calls, cleanup_calls, connect_log, broker_log,
                   api_calls>>
    /\ UNCHANGED <<daemon, env, qos, requeued, task_done_calls, qos_used, handoffs, mainVars, queueVars, serial_pc, ser, is_open, message_to_print,
                   command, buffer, mock_mode, mqttVars, histVars>>

\* --------------------------------------------- ScaleMqttHandler._on_message
CommandTopic == "command"

ScalePayloads == {<<84>>, <<90, 84>>}

\* _on_message without the slice of line 54
ScaleMqtt_on_message_WholePayload(topic, payload) ==
    /\ daemon = "scale"
    /\ Len(msgs_in) < env.msgs
    /\ msgs_in' = Append(msgs_in, [topic |-> topic, payload |-> payload])
    /\ IF topic = CommandTopic /\ payload # <<>> /\ Len(payload) > 0
       THEN /\ mqtt_to_serial_queue' = Append(mqtt_to_serial_queue, payload)
            /\ m2s_puts' = Append(m2s_puts, payload)
       ELSE UNCHANGED <<mqtt_to_serial_queue, m2s_puts>>
    /\ UNCHANGED <<daemon, env, qos, requeued, task_done_calls, qos_used, handoffs, mainVars, traceVars, serial_to_mqtt_queue, serialVars, mqttVars, opens,
                   closed, s2m_puts, write_log, read_log, conn_lines,
                   publish_log, connect_calls, got>>

\* lines 48-62
ScaleMqtt_on_message(topic, payload) ==
    /\ daemon = "scale"
    /\ Len(msgs_in) < env.msgs
    /\ msgs_in' = Append(msgs_in, [topic |-> topic, payload |-> payload])
    /\ IF topic = CommandTopic /\ payload # <<>> /\ Len(payload) > 0
       THEN /\ mqtt_to_serial_queue' =
                   Append(mqtt_to_serial_queue, SubSeq(payload, 1, 1))
            /\ m2s_puts' = Append(m2s_puts, SubSeq(payload, 1, 1))
       ELSE UNCHANGED <<mqtt_to_serial_queue, m2s_puts>>
    /\ UNCHANGED <<daemon, env, qos, requeued, task_done_calls, qos_used, handoffs, mainVars, traceVars, serial_to_mqtt_queue, serialVars, mqttVars, opens,
                   closed, s2m_puts, write_log, read_log, conn_lines,
                   publish_log, connect_calls, got>>

\* -------------------------------------------------- ScaleSerialHandler
\* what the scale may send
ScaleBytes == {LF, SPACE, 65, 200}

\* str.strip(): the whitespace Python strips, among the characters a decoded
\* buffer can hold
IsSpace(c) == c \in {9, 10, 11, 12, 13, 28, 29, 30, 31, 32}

RECURSIVE LStrip(_)
LStrip(s) == IF s # <<>> /\ IsSpace(Head(s)) THEN LStrip(Tail(s)) ELSE s

RECURSIVE RStrip(_)
RStrip(s) ==
    IF s # <<>> /\ IsSpace(Last(s)) THEN RStrip(SubSeq(s, 1, Len(s) - 1)) ELSE s

Strip(s) == RStrip(LStrip(s))

ScaleSerial_disconnect_serial ==
    /\ closed' = IF ser # None /\ is_open THEN Append(closed, ser) ELSE closed
    /\ ser' = None
    /\ is_open' = FALSE

\* a _connect_serial without the os.path.exists test: serial.Serial creates
\* the handle although the path is absent
ScaleSerial_connect_serial_NoExistsCheck(outcome) ==
    /\ LogConnect(outcome)
    /\ CASE outcome \in {"ok", "absent"} ->
               /\ ser' = opens + 1
               /\ is_open' = TRUE
               /\ opens' = opens + 1
         [] outcome = "serial_exception" ->
               /\ ser' = None
               /\ is_open' = FALSE
               /\ opens' = opens
         [] OTHER ->
               /\ UNCHANGED <<ser, is_open, opens>>

\* _connect_serial, lines 35-52 (not in mock mode): only SerialException is
\* caught; another exception of serial.Serial(...) leaves self.ser as it was
ScaleSerial_connect_serial(outcome) ==
    /\ LogConnect(outcome)
    /\ CASE outcome = "ok" ->
               /\ ser' = opens + 1
               /\ is_open' = TRUE
               /\ opens' = opens + 1
         [] outcome = "serial_exception" ->
               /\ ser' = None
               /\ is_open' = FALSE
               /\ opens' = opens
         [] OTHER ->
               /\ UNCHANGED <<ser, is_open, opens>>

ScaleSerial_RunStart ==
    /\ daemon = "scale" /\ serial_pc = "start"
    /\ serial_running' = TRUE
    /\ buffer' = <<>>
    /\ serial_pc' = "loop"
    /\ UNCHANGED <<daemon, env, qos, requeued, task_done_calls, qos_used, handoffs, mainVars, traceVars, queueVars, ser, is_open, message_to_print, command,
                   mock_mode, mqttVars, histVars>>

\* while self.running: false -> the final _disconnect_serial()
ScaleSerial_LoopExit ==
    /\ daemon = "scale" /\ serial_pc = "loop" /\ ~serial_running
    /\ ScaleSerial_disconnect_serial
    /\ serial_pc' = "done"
    /\ UNCHANGED <<daemon, env, qos, requeued, task_done_calls, qos_used, handoffs, mainVars, traceVars, queueVars, serial_running, message_to_print, command,
                   buffer, mock_mode, mqttVars, opens, m2s_puts, s2m_puts,
                   write_log, read_log, conn_lines, publish_log, connect_calls,
                   got, msgs_in>>

\* lines 89-90: not connected -> _disconnect_serial()
ScaleSerial_Reconnect ==
    /\ daemon = "scale" /\ ~mock_mode /\ serial_pc = "loop" /\ serial_running
    /\ ser = None \/ ~is_open
    /\ ScaleSerial_disconnect_serial
    /\ serial_pc' = "connect"
    /\ UNCHANGED <<daemon, env, qos, requeued, task_done_calls, qos_used, handoffs, mainVars, traceVars, queueVars, serial_running,
                   message_to_print, command, buffer, mock_mode, mqttVars, opens,
                   m2s_puts, s2m_puts, write_log, read_log, conn_lines,
                   publish_log, connect_calls, got, msgs_in>>

\* lines 91-93 with a run() that ends when the device path is absent
ScaleSerial_ConnectAbsentEndsRun ==
    /\ daemon = "scale" /\ serial_pc = "connect"
    /\ \E outcome \in ConnectOutcomes :
          /\ outcome = "ok" => opens < MaxOpens
          /\ ScaleSerial_connect_serial(outcome)
          /\ serial_pc' = CASE outcome = "ok" -> "body"
                            [] outcome \in {"other_exception", "absent"} -> "crashed"
                            [] OTHER -> "sleep"
    /\ UNCHANGED <<stop_called, subscribe_calls, cleanup_calls, broker_log,
                   api_calls>>
    /\ UNCHANGED <<daemon, env, qos, requeued, task_done_calls, qos_used, handoffs, mainVars, queueVars, serial_running, message_to_print, command,
                   buffer, mock_mode, mqttVars, closed, m2s_puts, s2m_puts,
                   write_log, read_log, conn_lines, publish_log, connect_calls,
                   got, msgs_in>>

\* lines 91-93 with _connect_serial: on False the reconnect sleep; an
\* exception of serial.Serial(...) that is no SerialException is caught
\* nowhere and ends run()
ScaleSerial_Connect ==
    /\ daemon = "scale" /\ serial_pc = "connect"
    /\ \E outcome \in ConnectOutcomes :
          /\ outcome = "ok" => opens < MaxOpens
          /\ ScaleSerial_connect_serial(outcome)
          /\ serial_pc' = CASE outcome = "ok" -> "body"
                            [] outcome = "other_exception" -> "crashed"
                            [] OTHER -> "sleep"
    /\ UNCHANGED <<stop_called, subscribe_calls, cleanup_calls, broker_log,
                   api_calls>>
    /\ UNCHANGED <<daemon, env, qos, requeued, task_done_calls, qos_used, handoffs, mainVars, queueVars, serial_running, message_to_print, command,
                   buffer, mock_mode, mqttVars, closed, m2s_puts, s2m_puts,
                   write_log, read_log, conn_lines, publish_log, connect_calls,
                   got, msgs_in>>

ScaleSerial_Connected ==
    /\ daemon = "scale" /\ ~mock_mode /\ serial_pc = "loop" /\ serial_running
    /\ ser # None /\ is_open
    /\ serial_pc' = "body"
    /\ UNCHANGED <<daemon, env, qos, requeued, task_done_calls, qos_used, handoffs, mainVars, traceVars, queueVars, serial_running, ser, is_open,
                   message_to_print, command, buffer, mock_mode, mqttVars, histVars>>

\* lines 97-98
ScaleSerial_Dequeue ==
    /\ daemon = "scale" /\ serial_pc = "body"
    /\ IF mqtt_to_serial_queue # <<>>
       THEN /\ command' = <<QueueGet(mqtt_to_serial_queue).item>>
            /\ mqtt_to_serial_queue' = QueueGet(mqtt_to_serial_queue).rest
            /\ serial_pc' = "write"
       ELSE /\ UNCHANGED <<command, mqtt_to_serial_queue>>
            /\ serial_pc' = "read"
    /\ UNCHANGED <<daemon, env, qos, requeued, task_done_calls, qos_used, handoffs, mainVars, traceVars, serial_to_mqtt_queue, serial_running, ser, is_open,
                   message_to_print, buffer, mock_mode, mqttVars, opens, closed,
                   m2s_puts, s2m_puts, write_log, read_log, conn_lines,
                   publish_log, connect_calls, got, msgs_in>>

\* line 97: if not self.mqtt_to_serial_queue.empty()
ScaleSerial_QueueNotEmpty ==
    /\ daemon = "scale" /\ serial_pc = "body"
    /\ serial_pc' = IF mqtt_to_serial_queue # <<>> THEN "get" ELSE "read"
    /\ UNCHANGED <<daemon, env, qos, requeued, task_done_calls, qos_used, handoffs, mainVars, traceVars, queueVars, serial_running, ser, is_open,
                   message_to_print, command, buffer, mock_mode, mqttVars, histVars>>

\* line 98: self.mqtt_to_serial_queue.get(), which blocks on an empty queue
ScaleSerial_Get ==
    /\ daemon = "scale" /\ serial_pc = "get"
    /\ mqtt_to_serial_queue # <<>>
    /\ command' = <<QueueGet(mqtt_to_serial_queue).item>>
    /\ mqtt_to_serial_queue' = QueueGet(mqtt_to_serial_queue).rest
    /\ serial_pc' = "write"
    /\ UNCHANGED <<daemon, env, qos, requeued, task_done_calls, qos_used, handoffs, mainVars, traceVars, serial_to_mqtt_queue, serial_running, ser, is_open,
                   message_to_print, buffer, mock_mode, mqttVars, opens, closed,
                   m2s_puts, s2m_puts, write_log, read_log, conn_lines,
                   publish_log, connect_calls, got, msgs_in>>

\* lines 125-132: except SerialException / except OSError around the whole
\* iteration: _disconnect_serial() and the reconnect sleep, nothing re-queued
ScaleSerial_TransportError ==
    /\ ScaleSerial_disconnect_serial
    /\ serial_pc' = "sleep"

\* lines 100-103
ScaleSerial_Write ==
    /\ daemon = "scale" /\ serial_pc = "write"
    /\ IF ser # None /\ is_open
       THEN \E outcome \in WriteOutcomes :
               /\ outcome # "ok" => Failures < env.faults
               /\ write_log' = Append(write_log,
                     [h |-> ser, msg |-> command[1], data |-> command[1],
                      ok |-> outcome = "ok"])
               /\ IF outcome = "ok"
                  THEN /\ UNCHANGED <<closed, ser, is_open>>
                       /\ serial_pc' = "read"
                       /\ task_done_calls' = TaskDone("m2s")
                  ELSE /\ ScaleSerial_TransportError
                       /\ UNCHANGED task_done_calls
       ELSE /\ UNCHANGED <<write_log, closed, ser, is_open>>
            /\ serial_pc' = "read"
            /\ task_done_calls' = TaskDone("m2s")
    /\ command' = <<>>
    /\ UNCHANGED <<daemon, env, qos, requeued, qos_used, handoffs, mainVars, traceVars, queueVars, serial_running, message_to_print, buffer,
                   mock_mode, mqttVars, opens, m2s_puts, s2m_puts, read_log,
                   conn_lines, publish_log, connect_calls, got, msgs_in>>

\* a reader that hands a line over only while the broker session is up
ScaleSerial_process_byte_NeedsSession(byte) ==
    IF byte = LF
    THEN IF buffer # <<>>
         THEN LET message == Strip(DecodeAsciiReplace(buffer))
              IN /\ IF message # <<>> /\ is_connected
                    THEN /\ serial_to_mqtt_queue' =
                                Append(serial_to_mqtt_queue, message)
                         /\ s2m_puts' = Append(s2m_puts, message)
                         /\ conn_lines' =
                                Append(conn_lines, [h |-> ser, line |-> message])
                    ELSE UNCHANGED <<serial_to_mqtt_queue, s2m_puts, conn_lines>>
                 /\ buffer' = <<>>
         ELSE UNCHANGED <<serial_to_mqtt_queue, s2m_puts, conn_lines, buffer>>
    ELSE /\ buffer' = Append(buffer, byte)
         /\ UNCHANGED <<serial_to_mqtt_queue, s2m_puts, conn_lines>>

\* lines 110-118: one byte read from the port
ScaleSerial_process_byte(byte) ==
    IF byte = LF
    THEN IF buffer # <<>>
         THEN LET message == Strip(DecodeAsciiReplace(buffer))
              IN /\ IF message # <<>>
                    THEN /\ serial_to_mqtt_queue' =
                                Append(serial_to_mqtt_queue, message)
                         /\ s2m_puts' = Append(s2m_puts, message)
                         /\ conn_lines' =
                                Append(conn_lines, [h |-> ser, line |-> message])
                    ELSE UNCHANGED <<serial_to_mqtt_queue, s2m_puts, conn_lines>>
                 /\ buffer' = <<>>
         ELSE UNCHANGED <<serial_to_mqtt_queue, s2m_puts, conn_lines, buffer>>
    ELSE /\ buffer' = Append(buffer, byte)
         /\ UNCHANGED <<serial_to_mqtt_queue, s2m_puts, conn_lines>>

\* lines 107-123; in_waiting and read(1) can raise
ReadOutcomes == {"nothing", "timeout", "byte", "serial_exception", "os_error"}

ScaleSerial_Read ==
    /\ daemon = "scale" /\ serial_pc = "read"
    /\ IF ser # None /\ is_open
       THEN \E outcome \in ReadOutcomes :
               CASE outcome = "byte" ->
                       /\ Len(read_log) < env.rx
                       /\ \E byte \in ScaleBytes :
                             /\ read_log' = Append(read_log, [h |-> ser, byte |-> byte])
                             /\ ScaleSerial_process_byte(byte)
                       /\ serial_pc' = "loop"
                       /\ UNCHANGED <<closed, ser, is_open>>
                 [] outcome \in {"serial_exception", "os_error"} ->
                       /\ ScaleSerial_TransportError
                       /\ UNCHANGED <<read_log, serial_to_mqtt_queue, s2m_puts,
                                      conn_lines, buffer>>
                 [] OTHER ->
                       /\ serial_pc' = "loop"
                       /\ UNCHANGED <<closed, ser, is_open, read_log,
                                      serial_to_mqtt_queue, s2m_puts, conn_lines,
                                      buffer>>
       ELSE /\ ScaleSerial_disconnect_serial
            /\ serial_pc' = "loop"
            /\ UNCHANGED <<read_log, serial_to_mqtt_queue, s2m_puts, conn_lines,
                           buffer>>
    /\ UNCHANGED <<daemon, env, qos, requeued, task_done_calls, qos_used, handoffs, mainVars, traceVars, mqtt_to_serial_queue, serial_running,
                   message_to_print, command, mock_mode, mqttVars, opens,
                   m2s_puts, write_log, publish_log, connect_calls, got, msgs_in>>

\* a mock iteration with the commented-out put of line 83 enabled
ScaleSerial_MockIterationSendsData ==
    /\ daemon = "scale" /\ mock_mode /\ serial_pc = "loop" /\ serial_running
    /\ mqtt_to_serial_queue' =
          IF mqtt_to_serial_queue # <<>>
          THEN QueueGet(mqtt_to_serial_queue).rest
          ELSE mqtt_to_serial_queue
    /\ serial_to_mqtt_queue' = Append(serial_to_mqtt_queue, <<77>>)
    /\ s2m_puts' = Append(s2m_puts, <<77>>)
    /\ task_done_calls' = IF mqtt_to_serial_queue # <<>> THEN TaskDone("m2s")
                          ELSE task_done_calls
    /\ serial_pc' = "sleep"
    /\ UNCHANGED <<daemon, env, qos, requeued, qos_used, handoffs, mainVars, traceVars, serial_running, ser, is_open,
                   message_to_print, command, buffer, mock_mode, mqttVars, opens, closed,
                   m2s_puts, write_log, read_log, conn_lines,
                   publish_log, connect_calls, got, msgs_in>>

\* lines 75-86: an iteration in mock mode takes a command off the queue, if
\* there is one, logs it and drops it; then time.sleep(0.1) and continue
ScaleSerial_MockIteration ==
    /\ daemon = "scale" /\ mock_mode /\ serial_pc = "loop" /\ serial_running
    /\ mqtt_to_serial_queue' =
          IF mqtt_to_serial_queue # <<>>
          THEN QueueGet(mqtt_to_serial_queue).rest
          ELSE mqtt_to_serial_queue
    /\ UNCHANGED <<serial_to_mqtt_queue, s2m_puts>>
    /\ task_done_calls' = IF mqtt_to_serial_queue # <<>> THEN TaskDone("m2s")
                          ELSE task_done_calls
    /\ serial_pc' = "sleep"
    /\ UNCHANGED <<daemon, env, qos, requeued, qos_used, handoffs, mainVars, traceVars, serial_running, ser, is_open,
                   message_to_print, command, buffer, mock_mode, mqttVars, opens, closed,
                   m2s_puts, write_log, read_log, conn_lines,
                   publish_log, connect_calls, got, msgs_in>>

\* a sleep that is followed by the connect attempt, not by the loop test
ScaleSerial_WakeUpRetries ==
    /\ daemon = "scale" /\ serial_pc = "sleep"
    /\ serial_pc' = "connect"
    /\ UNCHANGED <<daemon, env, qos, requeued, task_done_calls, qos_used, handoffs, mainVars, traceVars, queueVars, serial_running, ser, is_open,
                   message_to_print, command, buffer, mock_mode, mqttVars, histVars>>

\* time.sleep(self.reconnect_delay), then the next iteration
ScaleSerial_WakeUp ==
    /\ daemon = "scale" /\ serial_pc = "sleep"
    /\ serial_pc' = "loop"
    /\ UNCHANGED <<daemon, env, qos, requeued, task_done_calls, qos_used, handoffs, mainVars, traceVars, queueVars, serial_running, ser, is_open,
                   message_to_print, command, buffer, mock_mode, mqttVars, histVars>>

\* ---------------------------------------------------- ScaleMqttHandler
\* str.encode('utf-8')
Utf8Char(c) ==
    IF c < 128 THEN <<c>>
    ELSE IF c < 2048 THEN <<192 + (c \div 64), 128 + (c % 64)>>
    ELSE <<224 + (c \div 4096), 128 + ((c \div 64) % 64), 128 + (c % 64)>>

RECURSIVE EncodeUtf8(_)
EncodeUtf8(str) ==
    IF str = <<>> THEN <<>> ELSE Utf8Char(Head(str)) \o EncodeUtf8(Tail(str))

\* lines the serial thread puts on serial_to_mqtt_queue
ScaleLines == {<<65>>, <<REPLACEMENT>>}

\* ScaleSerialHandler.run line 115, seen from the MQTT thread
SerialThread_put(line) ==
    /\ daemon = "scale" /\ serial_pc = "off"
    /\ Len(s2m_puts) < env.msgs
    /\ serial_to_mqtt_queue' = Append(serial_to_mqtt_queue, line)
    /\ s2m_puts' = Append(s2m_puts, line)
    /\ UNCHANGED <<daemon, env, qos, requeued, task_done_calls, qos_used, handoffs, mainVars, traceVars, mqtt_to_serial_queue, serialVars, mqttVars, opens,
                   closed, m2s_puts, write_log, read_log, conn_lines,
                   publish_log, connect_calls, got, msgs_in>>

\* The calls of _setup_client that can raise: the constructor,
\* username_pw_set and (with TLS) tls_set; "nothing" is the run without an
\* exception.
SetupRaises == {"nothing", "Client", "username_pw_set", "tls_set"}

\* a _setup_client whose except clause does not reset self.client: a client
\* constructed before the exception stays, without handlers ("bare")
Mqtt_setup_client_NoReset(raises) ==
    [client |-> CASE raises = "nothing" -> "wired"
                  [] raises = "Client" -> "none"
                  [] OTHER -> "bare",
     ok |-> raises = "nothing"]

\* _setup_client: the client with on_connect, on_disconnect and on_message
\* attached and True, or, on any exception, self.client = None and False
Mqtt_setup_client(raises) ==
    [client |-> IF raises = "nothing" THEN "wired" ELSE "none",
     ok |-> raises = "nothing"]

\* a run() whose setup failure also stops the serial handler
ScaleMqtt_RunStartFailureStopsSerial ==
    /\ daemon = "scale" /\ mqtt_pc = "start"
    /\ \E raises \in SetupRaises :
          LET setup == Mqtt_setup_client(raises)
          IN  /\ client' = setup.client
              /\ IF setup.ok /\ setup.client # "none"
                 THEN /\ mqtt_running' = TRUE
                      /\ mqtt_pc' = "loop"
                      /\ serial_running' = serial_running
                 ELSE /\ mqtt_running' = FALSE
                      /\ mqtt_pc' = "done"
                      /\ serial_running' = FALSE
    /\ UNCHANGED <<daemon, env, qos, requeued, task_done_calls, qos_used, handoffs, mainVars, traceVars, queueVars, serial_pc, ser, is_open,
                   message_to_print, command, buffer, mock_mode,
                   connection_rc, is_connected,
                   loop_running, connack_pending, message_str, histVars>>

\* run() lines 95-101 with _setup_client (67-92)
ScaleMqtt_RunStart ==
    /\ daemon = "scale" /\ mqtt_pc = "start"
    /\ \E raises \in SetupRaises :
          LET setup == Mqtt_setup_client(raises)
          IN  /\ client' = setup.client
              /\ IF setup.ok /\ setup.client # "none"
                 THEN /\ mqtt_running' = TRUE
                      /\ mqtt_pc' = "loop"
                 ELSE /\ mqtt_running' = FALSE
                      /\ mqtt_pc' = "done"
    /\ UNCHANGED <<daemon, env, qos, requeued, task_done_calls, qos_used, handoffs, mainVars, traceVars, queueVars, serialVars, connection_rc, is_connected,
                   loop_running, connack_pending, message_str, histVars>>

\* while self.running: false
ScaleMqtt_LoopExit ==
    /\ daemon = "scale" /\ mqtt_pc = "loop" /\ ~mqtt_running
    /\ mqtt_pc' = "cleanup"
    /\ UNCHANGED <<daemon, env, qos, requeued, task_done_calls, qos_used, handoffs, mainVars, traceVars, queueVars, serialVars, mqtt_running, client,
                   connection_rc, is_connected, loop_running, connack_pending,
                   message_str, histVars>>

\* a cleanup that disconnects whether or not the session is connected
Mqtt_cleanupAlwaysDisconnects ==
    IF client # "none"
    THEN /\ cleanup_calls' = cleanup_calls \o <<"loop_stop", "disconnect">>
         /\ loop_running' = FALSE
         /\ is_connected' = FALSE
    ELSE UNCHANGED <<cleanup_calls, loop_running, is_connected>>

\* The client calls of the cleanup after the loop: loop_stop() and
\* disconnect() if connected, loop_stop(force=True) otherwise.
Mqtt_cleanup ==
    IF client # "none"
    THEN /\ cleanup_calls' = cleanup_calls \o
                (IF is_connected THEN <<"loop_stop", "disconnect">>
                                 ELSE <<"loop_stop_force">>)
         /\ loop_running' = FALSE
         /\ is_connected' = FALSE
    ELSE UNCHANGED <<cleanup_calls, loop_running, is_connected>>

\* lines 158-164
ScaleMqtt_Cleanup ==
    /\ daemon = "scale" /\ mqtt_pc = "cleanup"
    /\ Mqtt_cleanup
    /\ mqtt_pc' = "done"
    /\ UNCHANGED <<stop_called, subscribe_calls, connect_log, broker_log,
                   api_calls>>
    /\ UNCHANGED <<daemon, env, qos, requeued, task_done_calls, qos_used, handoffs, mainVars, queueVars, serialVars, mqtt_running, client,
                   connection_rc, connack_pending, message_str, histVars>>

\* client.connect(...): returns, raises ConnectionRefusedError, or raises
\* another exception
BrokerConnectOutcomes == {"ok", "refused", "error"}

\* The qos argument of client.subscribe and of client.publish.
QosLevels == {0, 1, 2}

SubscribeQos == qos

\* a publish that asks for the level after the configured one
PublishQosNextLevel == (qos + 1) % 3

PublishQos == qos

LogQos(level) == IF env.trace > 0 THEN qos_used \cup {level} ELSE qos_used

\* client.subscribe(topic, qos), recorded like the connect that preceded it
LogSubscribe(topic) ==
    IF Len(subscribe_calls) < env.trace THEN Append(subscribe_calls, topic)
                                        ELSE subscribe_calls

LogBrokerConnect(outcome) ==
    broker_log' = IF Len(broker_log) < env.trace
                  THEN Append(broker_log, outcome)
                  ELSE broker_log

\* a run() without the except ConnectionRefusedError clause: the exception
\* ends the thread
ScaleMqtt_ConnectRefusedEndsRun ==
    /\ daemon = "scale" /\ mqtt_pc = "loop" /\ mqtt_running
    /\ ~is_connected
    /\ connect_calls < MaxConnects
    /\ connection_rc' = RC_UNSET
    /\ connect_calls' = connect_calls + 1
    /\ \E outcome \in BrokerConnectOutcomes :
          /\ LogBrokerConnect(outcome)
          /\ IF outcome = "ok"
             THEN /\ connack_pending' = TRUE
                  /\ loop_running' = TRUE
                  /\ mqtt_pc' = "wait"
             ELSE /\ UNCHANGED <<connack_pending, loop_running>>
                  /\ mqtt_pc' = IF outcome = "refused" THEN "done" ELSE "sleep"
    /\ UNCHANGED <<stop_called, subscribe_calls, cleanup_calls, connect_log,
                   api_calls>>
    /\ UNCHANGED <<daemon, env, qos, requeued, task_done_calls, qos_used, handoffs, mainVars, queueVars, serialVars, mqtt_running, client,
                   is_connected, message_str, opens, closed, m2s_puts, s2m_puts,
                   write_log, read_log, conn_lines, publish_log, got, msgs_in>>

\* lines 104-109 and the except clauses 123-132
ScaleMqtt_Connect ==
    /\ daemon = "scale" /\ mqtt_pc = "loop" /\ mqtt_running
    /\ ~is_connected
    /\ connect_calls < MaxConnects
    /\ connection_rc' = RC_UNSET
    /\ connect_calls' = connect_calls + 1
    /\ \E outcome \in BrokerConnectOutcomes :
          /\ LogBrokerConnect(outcome)
          /\ IF outcome = "ok"
             THEN /\ connack_pending' = TRUE
                  /\ loop_running' = TRUE
                  /\ mqtt_pc' = "wait"
             ELSE /\ UNCHANGED <<connack_pending, loop_running>>
                  /\ mqtt_pc' = "sleep"
    /\ UNCHANGED <<stop_called, subscribe_calls, cleanup_calls, connect_log,
                   api_calls>>
    /\ UNCHANGED <<daemon, env, qos, requeued, task_done_calls, qos_used, handoffs, mainVars, queueVars, serialVars, mqtt_running, client,
                   is_connected, message_str, opens, closed, m2s_puts, s2m_puts,
                   write_log, read_log, conn_lines, publish_log, got, msgs_in>>

\* an _on_connect that subscribes whatever the result code is
ScaleMqtt_on_connect_AlwaysSubscribes(rc) ==
    /\ daemon = "scale" /\ loop_running /\ connack_pending
    /\ connack_pending' = FALSE
    /\ connection_rc' = rc
    /\ is_connected' = (rc = 0)
    /\ subscribe_calls' = LogSubscribe(CommandTopic)
    /\ qos_used' = LogQos(SubscribeQos)
    /\ UNCHANGED <<stop_called, cleanup_calls, connect_log, broker_log, api_calls>>
    /\ UNCHANGED <<daemon, env, qos, requeued, task_done_calls, handoffs, mainVars, queueVars, serialVars, mqtt_pc, mqtt_running,
                   client, loop_running, message_str, histVars>>

\* _on_connect, called by the network thread when the CONNACK arrives
ScaleMqtt_on_connect(rc) ==
    /\ daemon = "scale" /\ loop_running /\ connack_pending
    /\ connack_pending' = FALSE
    /\ connection_rc' = rc
    /\ is_connected' = (rc = 0)
    /\ subscribe_calls' = IF rc = 0 THEN LogSubscribe(CommandTopic)
                                    ELSE subscribe_calls
    /\ qos_used' = IF rc = 0 THEN LogQos(SubscribeQos) ELSE qos_used
    /\ UNCHANGED <<stop_called, cleanup_calls, connect_log, broker_log, api_calls>>
    /\ UNCHANGED <<daemon, env, qos, requeued, task_done_calls, handoffs, mainVars, queueVars, serialVars, mqtt_pc, mqtt_running,
                   client, loop_running, message_str, histVars>>

\* an _on_disconnect that forgets the stored connection result
ScaleMqtt_on_disconnect_ResetsResult ==
    /\ daemon = "scale" /\ loop_running /\ is_connected
    /\ mqtt_pc = "publish" => Failures < env.faults
    /\ is_connected' = FALSE
    /\ connection_rc' = RC_UNSET
    /\ UNCHANGED <<daemon, env, qos, requeued, task_done_calls, qos_used, handoffs, mainVars, traceVars, queueVars, serialVars, mqtt_pc, mqtt_running,
                   client, loop_running, connack_pending,
                   message_str, histVars>>

\* the connection drops; _on_disconnect only logs.  A drop between get() and
\* publish() makes that publish fail: it is one of the environment's faults.
ScaleMqtt_on_disconnect ==
    /\ daemon = "scale" /\ loop_running /\ is_connected
    /\ mqtt_pc = "publish" => Failures < env.faults
    /\ is_connected' = FALSE
    /\ UNCHANGED <<daemon, env, qos, requeued, task_done_calls, qos_used, handoffs, mainVars, traceVars, queueVars, serialVars, mqtt_pc, mqtt_running,
                   client, connection_rc, loop_running, connack_pending,
                   message_str, histVars>>

\* lines 111-121: the wait ends on a result, on the timeout or on stop()
ScaleMqtt_WaitDone ==
    /\ daemon = "scale" /\ mqtt_pc = "wait"
    /\ IF connection_rc # 0 /\ mqtt_running
       THEN /\ loop_running' = FALSE
            /\ mqtt_pc' = "sleep"
       ELSE /\ loop_running' = loop_running
            /\ mqtt_pc' = IF ~mqtt_running THEN "cleanup" ELSE "body"
    /\ UNCHANGED <<daemon, env, qos, requeued, task_done_calls, qos_used, handoffs, mainVars, traceVars, queueVars, serialVars, mqtt_running, client,
                   connection_rc, is_connected, connack_pending, message_str,
                   histVars>>

ScaleMqtt_Connected ==
    /\ daemon = "scale" /\ mqtt_pc = "loop" /\ mqtt_running
    /\ is_connected
    /\ mqtt_pc' = "body"
    /\ UNCHANGED <<daemon, env, qos, requeued, task_done_calls, qos_used, handoffs, mainVars, traceVars, queueVars, serialVars, mqtt_running, client,
                   connection_rc, is_connected, loop_running, connack_pending,
                   message_str, histVars>>

\* a get() that does not look at client.is_connected()
ScaleMqtt_DequeueUnchecked ==
    /\ daemon = "scale" /\ mqtt_pc = "body"
    /\ IF serial_to_mqtt_queue # <<>>
       THEN /\ message_str' = <<QueueGet(serial_to_mqtt_queue).item>>
            /\ serial_to_mqtt_queue' = QueueGet(serial_to_mqtt_queue).rest
            /\ got' = [queue |-> serial_to_mqtt_queue, puts |-> Len(s2m_puts)]
            /\ mqtt_pc' = "publish"
       ELSE /\ UNCHANGED <<message_str, serial_to_mqtt_queue, got>>
            /\ mqtt_pc' = "loop"
    /\ UNCHANGED <<daemon, env, qos, requeued, task_done_calls, qos_used, handoffs, mainVars, traceVars, mqtt_to_serial_queue, serialVars, mqtt_running,
                   client, connection_rc, is_connected, loop_running,
                   connack_pending, opens, closed, m2s_puts, s2m_puts, write_log,
                   read_log, conn_lines, publish_log, connect_calls, msgs_in>>

\* lines 135-138
ScaleMqtt_Dequeue ==
    /\ daemon = "scale" /\ mqtt_pc = "body"
    /\ IF is_connected /\ serial_to_mqtt_queue # <<>>
       THEN /\ message_str' = <<QueueGet(serial_to_mqtt_queue).item>>
            /\ serial_to_mqtt_queue' = QueueGet(serial_to_mqtt_queue).rest
            /\ got' = [queue |-> serial_to_mqtt_queue, puts |-> Len(s2m_puts)]
            /\ mqtt_pc' = "publish"
       ELSE /\ UNCHANGED <<message_str, serial_to_mqtt_queue, got>>
            /\ mqtt_pc' = "loop"
    /\ UNCHANGED <<daemon, env, qos, requeued, task_done_calls, qos_used, handoffs, mainVars, traceVars, mqtt_to_serial_queue, serialVars, mqtt_running,
                   client, connection_rc, is_connected, loop_running,
                   connack_pending, opens, closed, m2s_puts, s2m_puts, write_log,
                   read_log, conn_lines, publish_log, connect_calls, msgs_in>>

\* lines 135 and 137: if self.client.is_connected(): ... if not
\* self.serial_to_mqtt_queue.empty()
ScaleMqtt_QueueNotEmpty ==
    /\ daemon = "scale" /\ mqtt_pc = "body"
    /\ mqtt_pc' = IF is_connected /\ serial_to_mqtt_queue # <<>>
                  THEN "get" ELSE "loop"
    /\ UNCHANGED <<daemon, env, qos, requeued, task_done_calls, qos_used, handoffs, mainVars, traceVars, queueVars, serialVars, mqtt_running, client,
                   connection_rc, is_connected, loop_running, connack_pending,
                   message_str, histVars>>

\* line 138: self.serial_to_mqtt_queue.get(), which blocks on an empty queue
ScaleMqtt_Get ==
    /\ daemon = "scale" /\ mqtt_pc = "get"
    /\ serial_to_mqtt_queue # <<>>
    /\ message_str' = <<QueueGet(serial_to_mqtt_queue).item>>
    /\ serial_to_mqtt_queue' = QueueGet(serial_to_mqtt_queue).rest
    /\ got' = [queue |-> serial_to_mqtt_queue, puts |-> Len(s2m_puts)]
    /\ mqtt_pc' = "publish"
    /\ UNCHANGED <<daemon, env, qos, requeued, task_done_calls, qos_used, handoffs, mainVars, traceVars, mqtt_to_serial_queue, serialVars, mqtt_running,
                   client, connection_rc, is_connected, loop_running,
                   connack_pending, opens, closed, m2s_puts, s2m_puts, write_log,
                   read_log, conn_lines, publish_log, connect_calls, msgs_in>>

\* lines 143-146: a non-success result code
ScaleMqtt_PublishFailedNoRequeue(m) ==
    /\ serial_to_mqtt_queue' = serial_to_mqtt_queue
    /\ UNCHANGED <<is_connected, loop_running, requeued>>

ScaleMqtt_PublishFailedForcesReconnect(m) ==
    /\ serial_to_mqtt_queue' = Append(serial_to_mqtt_queue, m)
    /\ is_connected' = FALSE
    /\ loop_running' = FALSE
    /\ requeued' = Requeue("s2m")

ScaleMqtt_PublishFailed(m) ==
    /\ serial_to_mqtt_queue' = Append(serial_to_mqtt_queue, m)
    /\ UNCHANGED <<is_connected, loop_running>>
    /\ requeued' = Requeue("s2m")

\* client.publish(...): the result code, or an exception
PublishOutcomes ==
    IF is_connected
    THEN {[rc |-> MQTT_ERR_SUCCESS, raised |-> FALSE],
          [rc |-> MQTT_ERR_QUEUE_SIZE, raised |-> FALSE],
          [rc |-> RC_UNSET, raised |-> TRUE]}
    ELSE {[rc |-> MQTT_ERR_NO_CONN, raised |-> FALSE],
          [rc |-> RC_UNSET, raised |-> TRUE]}

\* lines 139-153
ScaleMqtt_Publish ==
    /\ daemon = "scale" /\ mqtt_pc = "publish"
    /\ \E outcome \in PublishOutcomes :
          /\ (is_connected /\ outcome.rc # MQTT_ERR_SUCCESS)
                => Failures < env.faults
          /\ publish_log' = Append(publish_log,
                [msg |-> message_str[1], data |-> EncodeUtf8(message_str[1]),
                 rc |-> outcome.rc, raised |-> outcome.raised,
                 session |-> connect_calls])
          /\ qos_used' = LogQos(PublishQos)
          /\ IF ~outcome.raised /\ outcome.rc # MQTT_ERR_SUCCESS
             THEN ScaleMqtt_PublishFailed(message_str[1])
             ELSE UNCHANGED <<serial_to_mqtt_queue, is_connected, loop_running,
                              requeued>>
          /\ task_done_calls' = IF outcome.raised THEN task_done_calls
                                ELSE TaskDone("s2m")
    /\ message_str' = <<>>
    /\ mqtt_pc' = "loop"
    /\ UNCHANGED <<daemon, env, qos, handoffs, mainVars, traceVars, mqtt_to_serial_queue, serialVars, mqtt_running,
                   client, connection_rc, connack_pending, opens, closed,
                   m2s_puts, s2m_puts, write_log, read_log, conn_lines,
                   connect_calls, got, msgs_in>>

\* time.sleep(self.reconnect_delay); continue
ScaleMqtt_WakeUp ==
    /\ daemon = "scale" /\ mqtt_pc = "sleep"
    /\ mqtt_pc' = "loop"
    /\ UNCHANGED <<daemon, env, qos, requeued, task_done_calls, qos_used, handoffs, mainVars, traceVars, queueVars, serialVars, mqtt_running, client,
                   connection_rc, is_connected, loop_running, connack_pending,
                   message_str, histVars>>

\* stop(), called by another thread after start() returned
Mqtt_stop ==
    /\ mqtt_pc \notin {"off", "done"}
    /\ ~StopCalled("mqtt")
    /\ stop_called' = stop_called \cup {<<"mqtt", StopPoint(mqtt_pc)>>}
    /\ mqtt_running' = FALSE
    /\ UNCHANGED <<subscribe_calls, cleanup_calls, connect_log, broker_log,
                   api_calls>>
    /\ UNCHANGED <<daemon, env, qos, requeued, task_done_calls, qos_used, handoffs, mainVars, queueVars, serialVars, mqtt_pc, client,
                   connection_rc, is_connected, loop_running, connack_pending,
                   message_str, histVars>>

\* --------------------------------------------------- PrinterMqttHandler
\* run() lines 84-90 with _setup_client (62-81)
PrinterMqtt_RunStart ==
    /\ daemon = "printer" /\ mqtt_pc = "start"
    /\ \E raises \in SetupRaises :
          LET setup == Mqtt_setup_client(raises)
          IN  /\ client' = setup.client
              /\ IF setup.ok /\ setup.client # "none"
                 THEN /\ mqtt_running' = TRUE
                      /\ mqtt_pc' = "loop"
                 ELSE /\ mqtt_running' = FALSE
                      /\ mqtt_pc' = "done"
    /\ UNCHANGED <<daemon, env, qos, requeued, task_done_calls, qos_used, handoffs, mainVars, traceVars, queueVars, serialVars, connection_rc,
                   is_connected, loop_running, connack_pending, message_str,
                   histVars>>

\* while self.running: false
PrinterMqtt_LoopExit ==
    /\ daemon = "printer" /\ mqtt_pc = "loop" /\ ~mqtt_running
    /\ mqtt_pc' = "cleanup"
    /\ UNCHANGED <<daemon, env, qos, requeued, task_done_calls, qos_used, handoffs, mainVars, traceVars, queueVars, serialVars, mqtt_running,
                   client, connection_rc, is_connected, loop_running,
                   connack_pending, message_str, histVars>>

\* lines 127-133
PrinterMqtt_Cleanup ==
    /\ daemon = "printer" /\ mqtt_pc = "cleanup"
    /\ Mqtt_cleanup
    /\ mqtt_pc' = "done"
    /\ UNCHANGED <<stop_called, subscribe_calls, connect_log, broker_log,
                   api_calls>>
    /\ UNCHANGED <<daemon, env, qos, requeued, task_done_calls, qos_used, handoffs, mainVars, queueVars, serialVars, mqtt_running, client,
                   connection_rc, connack_pending, message_str, histVars>>

\* lines 93-98 and the except clauses 111-120
PrinterMqtt_Connect ==
    /\ daemon = "printer" /\ mqtt_pc = "loop" /\ mqtt_running
    /\ ~is_connected
    /\ connect_calls < MaxConnects
    /\ connection_rc' = RC_UNSET
    /\ connect_calls' = connect_calls + 1
    /\ \E outcome \in BrokerConnectOutcomes :
          /\ LogBrokerConnect(outcome)
          /\ IF outcome = "ok"
             THEN /\ connack_pending' = TRUE
                  /\ loop_running' = TRUE
                  /\ mqtt_pc' = "wait"
             ELSE /\ UNCHANGED <<connack_pending, loop_running>>
                  /\ mqtt_pc' = "sleep"
    /\ UNCHANGED <<stop_called, subscribe_calls, cleanup_calls, connect_log,
                   api_calls>>
    /\ UNCHANGED <<daemon, env, qos, requeued, task_done_calls, qos_used, handoffs, mainVars, queueVars, serialVars, mqtt_running, client,
                   is_connected, message_str, opens, closed, m2s_puts, s2m_puts,
                   write_log, read_log, conn_lines, publish_log, got, msgs_in>>

\* _on_connect (30-37), called by the network thread when the CONNACK arrives
PrinterMqtt_on_connect(rc) ==
    /\ daemon = "printer" /\ loop_running /\ connack_pending
    /\ connack_pending' = FALSE
    /\ connection_rc' = rc
    /\ is_connected' = (rc = 0)
    /\ subscribe_calls' = IF rc = 0 THEN LogSubscribe(PrintTopic)
                                    ELSE subscribe_calls
    /\ qos_used' = IF rc = 0 THEN LogQos(SubscribeQos) ELSE qos_used
    /\ UNCHANGED <<stop_called, cleanup_calls, connect_log, broker_log, api_calls>>
    /\ UNCHANGED <<daemon, env, qos, requeued, task_done_calls, handoffs, mainVars, queueVars, serialVars, mqtt_pc, mqtt_running,
                   client, loop_running, message_str, histVars>>

\* the connection drops; _on_disconnect (39-40) only logs
PrinterMqtt_on_disconnect ==
    /\ daemon = "printer" /\ loop_running /\ is_connected
    /\ is_connected' = FALSE
    /\ UNCHANGED <<daemon, env, qos, requeued, task_done_calls, qos_used, handoffs, mainVars, traceVars, queueVars, serialVars, mqtt_pc,
                   mqtt_running, client, connection_rc, loop_running,
                   connack_pending, message_str, histVars>>

\* a wait whose failure branch leaves the network loop running
PrinterMqtt_WaitDoneKeepsLoop ==
    /\ daemon = "printer" /\ mqtt_pc = "wait"
    /\ loop_running' = loop_running
    /\ mqtt_pc' = IF connection_rc # 0 /\ mqtt_running THEN "sleep"
                  ELSE IF ~mqtt_running THEN "cleanup" ELSE "idle"
    /\ UNCHANGED <<daemon, env, qos, requeued, task_done_calls, qos_used, handoffs, mainVars, traceVars, queueVars, serialVars, mqtt_running,
                   client, connection_rc, is_connected, connack_pending,
                   message_str, histVars>>

\* lines 100-110: the wait ends on a result, on the timeout or on stop()
PrinterMqtt_WaitDone ==
    /\ daemon = "printer" /\ mqtt_pc = "wait"
    /\ IF connection_rc # 0 /\ mqtt_running
       THEN /\ loop_running' = FALSE
            /\ mqtt_pc' = "sleep"
       ELSE /\ loop_running' = loop_running
            /\ mqtt_pc' = IF ~mqtt_running THEN "cleanup" ELSE "idle"
    /\ UNCHANGED <<daemon, env, qos, requeued, task_done_calls, qos_used, handoffs, mainVars, traceVars, queueVars, serialVars, mqtt_running,
                   client, connection_rc, is_connected, connack_pending,
                   message_str, histVars>>

\* connected: nothing to do but line 125
PrinterMqtt_Connected ==
    /\ daemon = "printer" /\ mqtt_pc = "loop" /\ mqtt_running
    /\ is_connected
    /\ mqtt_pc' = "idle"
    /\ UNCHANGED <<daemon, env, qos, requeued, task_done_calls, qos_used, handoffs, mainVars, traceVars, queueVars, serialVars, mqtt_running,
                   client, connection_rc, is_connected, loop_running,
                   connack_pending, message_str, histVars>>

\* time.sleep(self.reconnect_delay); continue, and time.sleep(0.1)
PrinterMqtt_WakeUp ==
    /\ daemon = "printer" /\ mqtt_pc \in {"sleep", "idle"}
    /\ mqtt_pc' = "loop"
    /\ UNCHANGED <<daemon, env, qos, requeued, task_done_calls, qos_used, handoffs, mainVars, traceVars, queueVars, serialVars, mqtt_running,
                   client, connection_rc, is_connected, loop_running,
                   connack_pending, message_str, histVars>>

\* ------------------------------------------------------------- main()
\* Thread.is_alive(): started and run() not yet returned or ended by an
\* exception
SerialAlive == serial_pc \notin {"off", "done", "crashed"}
MqttAlive == mqtt_pc \notin {"off", "done"}

\* serial_handler.start()
Main_StartSerial ==
    /\ main_pc = "init"
    /\ serial_pc' = "start"
    /\ main_calls' = Append(main_calls, "serial.start")
    /\ main_pc' = "start_mqtt"
    /\ UNCHANGED <<daemon, env, qos, requeued, task_done_calls, qos_used, handoffs, queueVars, serial_running, ser, is_open,
                   message_to_print, command, buffer, mock_mode, mqttVars,
                   histVars, traceVars>>

\* mqtt_handler.start(), then the while True: time.sleep(1) loop
Main_StartMqtt ==
    /\ main_pc = "start_mqtt"
    /\ mqtt_pc' = "start"
    /\ main_calls' = Append(main_calls, "mqtt.start")
    /\ main_pc' = "serve"
    /\ UNCHANGED <<daemon, env, qos, requeued, task_done_calls, qos_used, handoffs, queueVars, serialVars, mqtt_running, client,
                   connection_rc, is_connected, loop_running, connack_pending,
                   message_str, histVars, traceVars>>

\* KeyboardInterrupt in the sleep loop: the except clause logs, the finally
\* clause follows
Main_KeyboardInterrupt ==
    /\ main_pc = "serve"
    /\ main_pc' = "stop_mqtt"
    /\ UNCHANGED <<daemon, env, qos, requeued, task_done_calls, qos_used, handoffs, queueVars, serialVars, mqttVars, histVars,
                   traceVars, main_calls>>

\* a finally clause that stops the MQTT handler and does not join it
Main_StopMqttNoJoin ==
    /\ main_pc = "stop_mqtt"
    /\ IF MqttAlive
       THEN /\ mqtt_running' = FALSE
            /\ stop_called' = stop_called \cup {<<"mqtt", StopPoint(mqtt_pc)>>}
            /\ main_calls' = main_calls \o <<"mqtt.stop">>
            /\ main_pc' = "stop_serial"
       ELSE /\ UNCHANGED <<mqtt_running, stop_called, main_calls>>
            /\ main_pc' = "stop_serial"
    /\ UNCHANGED <<subscribe_calls, cleanup_calls, connect_log, broker_log,
                   api_calls>>
    /\ UNCHANGED <<daemon, env, qos, requeued, task_done_calls, qos_used, handoffs, queueVars, serialVars, mqtt_pc, client,
                   connection_rc, is_connected, loop_running, connack_pending,
                   message_str, histVars>>

\* if mqtt_handler.is_alive(): mqtt_handler.stop(); mqtt_handler.join()
\* (join is called here and returns in Main_MqttJoined)
Main_StopMqtt ==
    /\ main_pc = "stop_mqtt"
    /\ IF MqttAlive
       THEN /\ mqtt_running' = FALSE
            /\ stop_called' = stop_called \cup {<<"mqtt", StopPoint(mqtt_pc)>>}
            /\ main_calls' = main_calls \o <<"mqtt.stop", "mqtt.join">>
            /\ main_pc' = "join_mqtt"
       ELSE /\ UNCHANGED <<mqtt_running, stop_called, main_calls>>
            /\ main_pc' = "stop_serial"
    /\ UNCHANGED <<subscribe_calls, cleanup_calls, connect_log, broker_log,
                   api_calls>>
    /\ UNCHANGED <<daemon, env, qos, requeued, task_done_calls, qos_used, handoffs, queueVars, serialVars, mqtt_pc, client,
                   connection_rc, is_connected, loop_running, connack_pending,
                   message_str, histVars>>

\* mqtt_handler.join() returns: it has no timeout, so only when the thread
\* has ended
Main_MqttJoined ==
    /\ main_pc = "join_mqtt" /\ ~MqttAlive
    /\ main_pc' = "stop_serial"
    /\ UNCHANGED <<daemon, env, qos, requeued, task_done_calls, qos_used, handoffs, queueVars, serialVars, mqttVars, histVars,
                   traceVars, main_calls>>

\* if serial_handler.is_alive(): serial_handler.stop(); serial_handler.join()
Main_StopSerial ==
    /\ main_pc = "stop_serial"
    /\ IF SerialAlive
       THEN /\ serial_running' = FALSE
            /\ stop_called' = stop_called \cup {<<"serial", StopPoint(serial_pc)>>}
            /\ main_calls' = main_calls \o <<"serial.stop", "serial.join">>
            /\ main_pc' = "join_serial"
       ELSE /\ UNCHANGED <<serial_running, stop_called, main_calls>>
            /\ main_pc' = "exit"
    /\ UNCHANGED <<subscribe_calls, cleanup_calls, connect_log, broker_log,
                   api_calls>>
    /\ UNCHANGED <<daemon, env, qos, requeued, task_done_calls, qos_used, handoffs, queueVars, serial_pc, ser, is_open,
                   message_to_print, command, buffer, mock_mode, mqttVars,
                   histVars>>

\* serial_handler.join() returns, main() logs and returns
Main_SerialJoined ==
    /\ main_pc = "join_serial" /\ ~SerialAlive
    /\ main_pc' = "exit"
    /\ UNCHANGED <<daemon, env, qos, requeued, task_done_calls, qos_used, handoffs, queueVars, serialVars, mqttVars, histVars,
                   traceVars, main_calls>>

MainThread ==
    \/ Main_StartSerial
    \/ Main_StartMqtt
    \/ Main_StopMqtt
    \/ Main_MqttJoined
    \/ Main_StopSerial
    \/ Main_SerialJoined

\* ------------------------------------- the serial methods called directly
\* What _connect_serial gives its caller: True, False, or the exception it
\* does not catch (scale handler: anything but SerialException).
ConnectResult(outcome) ==
    CASE outcome = "ok" -> "True"
      [] outcome = "other_exception" /\ daemon = "scale" -> "raised"
      [] OTHER -> "False"

\* handler._connect_serial() on a handler that holds no handle, which is how
\* run() calls it (after _disconnect_serial)
Api_connect_serial ==
    /\ serial_pc = "off" /\ mqtt_pc = "off" /\ ~mock_mode
    /\ Len(api_calls) < MaxCalls
    /\ ser = None
    /\ \E outcome \in ConnectOutcomes :
          /\ outcome = "ok" => opens < MaxOpens
          /\ IF daemon = "printer" THEN PrinterSerial_connect_serial(outcome)
                                   ELSE ScaleSerial_connect_serial(outcome)
          /\ api_calls' = Append(api_calls, [op |-> "connect",
                                             result |-> ConnectResult(outcome)])
    /\ UNCHANGED <<stop_called, subscribe_calls, cleanup_calls, broker_log>>
    /\ UNCHANGED <<daemon, env, qos, requeued, task_done_calls, qos_used, handoffs, mainVars, queueVars, serial_pc, serial_running,
                   message_to_print, command, buffer, mock_mode, mqttVars,
                   closed, m2s_puts, s2m_puts, write_log, read_log, conn_lines,
                   publish_log, connect_calls, got, msgs_in>>

\* handler._disconnect_serial() in whatever state the handler is; it returns
\* None
Api_disconnect_serial ==
    /\ serial_pc = "off" /\ mqtt_pc = "off" /\ ~mock_mode
    /\ Len(api_calls) < MaxCalls
    /\ IF daemon = "printer" THEN PrinterSerial_disconnect_serial
                             ELSE ScaleSerial_disconnect_serial
    /\ api_calls' = Append(api_calls, [op |-> "disconnect", result |-> "None"])
    /\ UNCHANGED <<stop_called, subscribe_calls, cleanup_calls, connect_log,
                   broker_log>>
    /\ UNCHANGED <<daemon, env, qos, requeued, task_done_calls, qos_used, handoffs, mainVars, queueVars, serial_pc, serial_running,
                   message_to_print, command, buffer, mock_mode, mqttVars,
                   opens, m2s_puts, s2m_puts, write_log, read_log, conn_lines,
                   publish_log, connect_calls, got, msgs_in>>

\* ------------------------------------------------------ initial states
InitObjects ==
    /\ mqtt_to_serial_queue = <<>> /\ serial_to_mqtt_queue = <<>>
    /\ serial_running = FALSE /\ ser = None /\ is_open = FALSE
    /\ message_to_print = <<>> /\ command = <<>> /\ buffer = <<>>
    /\ mqtt_running = FALSE /\ client = "none" /\ connection_rc = RC_UNSET
    /\ is_connected = FALSE /\ loop_running = FALSE /\ connack_pending = FALSE
    /\ message_str = <<>>
    /\ opens = 0 /\ closed = <<>> /\ m2s_puts = <<>> /\ s2m_puts = <<>>
    /\ write_log = <<>> /\ read_log = <<>> /\ conn_lines = <<>>
    /\ publish_log = <<>> /\ connect_calls = 0
    /\ got = [queue |-> <<>>, puts |-> 0]
    /\ msgs_in = <<>>
    /\ stop_called = {} /\ subscribe_calls = <<>> /\ cleanup_calls = <<>>
    /\ connect_log = <<>> /\ broker_log = <<>> /\ api_calls = <<>>
    /\ qos_used = {}
    /\ handoffs = <<>>
    /\ requeued = [m2s |-> 0, s2m |-> 0]
    /\ task_done_calls = [m2s |-> 0, s2m |-> 0]

\* MOCK_SERIAL_DEVICES is not "true"
InitHandlers ==
    /\ InitObjects
    /\ mock_mode = FALSE

\* The handlers constructed, main() not part of the behaviour.
InitCommon ==
    /\ InitHandlers
    /\ qos = MQTT_QOS_DEFAULT
    /\ main_pc = "off" /\ main_calls = <<>>

\* The printer daemon's serial thread started; its MQTT handler only delivers
\* messages.
InitPrinterSerial ==
    /\ InitCommon
    /\ env = [msgs |-> MaxMsgs, rx |-> 0, faults |-> MaxFail, trace |-> 0,
              gets |-> MaxTrace]
    /\ daemon = "printer" /\ serial_pc = "start" /\ mqtt_pc = "off"

NextPrinterSerial ==
    \/ PrinterSerial_RunStart
    \/ PrinterSerial_LoopExit
    \/ PrinterSerial_Reconnect
    \/ PrinterSerial_Connect
    \/ PrinterSerial_Connected
    \/ PrinterSerial_Dequeue
    \/ PrinterSerial_Write
    \/ PrinterSerial_WakeUp
    \/ PortClosedUnexpectedly
    \/ Serial_stop
    \/ \E payload \in PrinterPayloads : PrinterMqtt_on_message(PrintTopic, payload)

SpecPrinterSerial == InitPrinterSerial /\ [][NextPrinterSerial]_vars

\* The scale daemon's serial thread started (not in mock mode); its MQTT
\* handler only delivers messages.
InitScaleSerial ==
    /\ InitCommon
    /\ env \in {[msgs |-> MaxMsgs, rx |-> 0, faults |-> MaxFail, trace |-> 0, gets |-> 0],
                [msgs |-> 0, rx |-> MaxRead, faults |-> MaxFail, trace |-> 0, gets |-> 0],
                [msgs |-> 1, rx |-> MaxRead - 1, faults |-> MaxFail, trace |-> 0, gets |-> 0]}
    /\ daemon = "scale" /\ serial_pc = "start" /\ mqtt_pc = "off"

NextScaleSerial ==
    \/ ScaleSerial_RunStart
    \/ ScaleSerial_LoopExit
    \/ ScaleSerial_Reconnect
    \/ ScaleSerial_Connect
    \/ ScaleSerial_Connected
    \/ ScaleSerial_Dequeue
    \/ ScaleSerial_Write
    \/ ScaleSerial_Read
    \/ ScaleSerial_WakeUp
    \/ PortClosedUnexpectedly
    \/ Serial_stop
    \/ \E payload \in ScalePayloads : ScaleMqtt_on_message(CommandTopic, payload)

SpecScaleSerial == InitScaleSerial /\ [][NextScaleSerial]_vars

\* The scale daemon's MQTT thread started; its serial handler only delivers
\* lines.
InitScaleMqtt ==
    /\ InitCommon
    /\ env = [msgs |-> MaxMsgs, rx |-> 0, faults |-> MaxFail, trace |-> 0, gets |-> 0]
    /\ daemon = "scale" /\ serial_pc = "off" /\ mqtt_pc = "start"

NextScaleMqtt ==
    \/ ScaleMqtt_RunStart
    \/ ScaleMqtt_LoopExit
    \/ ScaleMqtt_Cleanup
    \/ ScaleMqtt_Connect
    \/ \E rc \in {0, CONNACK_REFUSED} : ScaleMqtt_on_connect(rc)
    \/ ScaleMqtt_on_disconnect
    \/ ScaleMqtt_WaitDone
    \/ ScaleMqtt_Connected
    \/ ScaleMqtt_Dequeue
    \/ ScaleMqtt_Publish
    \/ ScaleMqtt_WakeUp
    \/ Mqtt_stop
    \/ \E line \in ScaleLines : SerialThread_put(line)

SpecScaleMqtt == InitScaleMqtt /\ [][NextScaleMqtt]_vars

\* Either daemon's _on_message called with any message, as the network
\* thread (or a test) calls it; no worker thread runs.
MqttPayloads == {<<>>, <<65>>, <<200>>, <<90, 84>>, <<65, 200>>, <<255, 254>>}

InitOnMessage ==
    /\ InitCommon
    /\ env = [msgs |-> MaxMsgs, rx |-> 0, faults |-> MaxFail, trace |-> 0, gets |-> 0]
    /\ daemon \in {"scale", "printer"}
    /\ serial_pc = "off" /\ mqtt_pc = "off"

NextOnMessage ==
    \/ \E topic \in {CommandTopic, OtherTopic} : \E payload \in MqttPayloads :
          ScaleMqtt_on_message(topic, payload)
    \/ \E topic \in {PrintTopic, OtherTopic} : \E payload \in MqttPayloads :
          PrinterMqtt_on_message(topic, payload)

SpecOnMessage == InitOnMessage /\ [][NextOnMessage]_vars

\* The three queue consumers, each with its producer, under the scheduler's
\* fairness: a thread that can take a step eventually takes one.
PrinterSerialThread ==
    \/ PrinterSerial_RunStart
    \/ PrinterSerial_LoopExit
    \/ PrinterSerial_Reconnect
    \/ PrinterSerial_Connect
    \/ PrinterSerial_Connected
    \/ PrinterSerial_Dequeue
    \/ PrinterSerial_Write
    \/ PrinterSerial_WakeUp

ScaleSerialThread ==
    \/ ScaleSerial_RunStart
    \/ ScaleSerial_LoopExit
    \/ ScaleSerial_Reconnect
    \/ ScaleSerial_Connect
    \/ ScaleSerial_Connected
    \/ ScaleSerial_Dequeue
    \/ ScaleSerial_Write
    \/ ScaleSerial_Read
    \/ ScaleSerial_WakeUp

ScaleMqttThread ==
    \/ ScaleMqtt_RunStart
    \/ ScaleMqtt_LoopExit
    \/ ScaleMqtt_Cleanup
    \/ ScaleMqtt_Connect
    \/ ScaleMqtt_WaitDone
    \/ ScaleMqtt_Connected
    \/ ScaleMqtt_Dequeue
    \/ ScaleMqtt_Publish
    \/ ScaleMqtt_WakeUp

\* one fault is enough to leave the case of a link that stays up
InitDelivery ==
    /\ InitCommon
    /\ env = [msgs |-> MaxMsgs, rx |-> 0, faults |-> 1, trace |-> 0, gets |-> 0]
    /\ \/ daemon = "printer" /\ serial_pc = "start" /\ mqtt_pc = "off"
       \/ daemon = "scale" /\ serial_pc = "start" /\ mqtt_pc = "off"
       \/ daemon = "scale" /\ serial_pc = "off" /\ mqtt_pc = "start"

\* Messages arrive for the serial thread under study; the lines for the MQTT
\* thread under study come from SerialThread_put.
NextDelivery ==
    \/ PrinterSerialThread
    \/ ScaleSerialThread
    \/ ScaleMqttThread
    \/ PortClosedUnexpectedly
    \/ Serial_stop
    \/ Mqtt_stop
    \/ \E rc \in {0, CONNACK_REFUSED} : ScaleMqtt_on_connect(rc)
    \/ ScaleMqtt_on_disconnect
    \/ \E payload \in PrinterPayloads :
          mqtt_pc = "off" /\ PrinterMqtt_on_message(PrintTopic, payload)
    \/ \E payload \in ScalePayloads :
          mqtt_pc = "off" /\ ScaleMqtt_on_message(CommandTopic, payload)
    \/ \E line \in ScaleLines : SerialThread_put(line)

FairSpec ==
    /\ InitDelivery
    /\ [][NextDelivery]_vars
    /\ WF_vars(PrinterSerialThread)
    /\ WF_vars(ScaleSerialThread)
    /\ WF_vars(ScaleMqttThread)

PrinterMqttThread ==
    \/ PrinterMqtt_RunStart
    \/ PrinterMqtt_LoopExit
    \/ PrinterMqtt_Cleanup
    \/ PrinterMqtt_Connect
    \/ PrinterMqtt_WaitDone
    \/ PrinterMqtt_Connected
    \/ PrinterMqtt_WakeUp

\* Any one of the four workers started, with its environment: the device, the
\* broker, the producer of its queue, and the thread that calls stop().
InitLifecycle ==
    /\ InitCommon
    /\ env = [msgs |-> 1, rx |-> 0, faults |-> 1, trace |-> 0, gets |-> 0]
    /\ \/ daemon = "printer" /\ serial_pc = "start" /\ mqtt_pc = "off"
       \/ daemon = "scale" /\ serial_pc = "start" /\ mqtt_pc = "off"
       \/ daemon = "scale" /\ serial_pc = "off" /\ mqtt_pc = "start"
       \/ daemon = "printer" /\ serial_pc = "off" /\ mqtt_pc = "start"

NextLifecycle ==
    \/ PrinterSerialThread
    \/ ScaleSerialThread
    \/ ScaleMqttThread
    \/ PrinterMqttThread
    \/ PortClosedUnexpectedly
    \/ Serial_stop
    \/ Mqtt_stop
    \/ \E rc \in {0, CONNACK_REFUSED} : ScaleMqtt_on_connect(rc)
    \/ \E rc \in {0, CONNACK_REFUSED} : PrinterMqtt_on_connect(rc)
    \/ ScaleMqtt_on_disconnect
    \/ PrinterMqtt_on_disconnect
    \/ \E payload \in PrinterPayloads :
          mqtt_pc = "off" /\ PrinterMqtt_on_message(PrintTopic, payload)
    \/ \E payload \in ScalePayloads :
          mqtt_pc = "off" /\ ScaleMqtt_on_message(CommandTopic, payload)
    \/ \E line \in ScaleLines : SerialThread_put(line)

FairSpecLifecycle ==
    /\ InitLifecycle
    /\ [][NextLifecycle]_vars
    /\ WF_vars(PrinterSerialThread)
    /\ WF_vars(ScaleSerialThread)
    /\ WF_vars(ScaleMqttThread)
    /\ WF_vars(PrinterMqttThread)

\* Either serial worker started, the device coming and going, with the
\* connect attempts recorded.
InitSerialGap ==
    /\ InitCommon
    /\ env = [msgs |-> 1, rx |-> 0, faults |-> 1, trace |-> 3, gets |-> 0]
    /\ daemon \in {"printer", "scale"}
    /\ serial_pc = "start" /\ mqtt_pc = "off"

NextSerialGap ==
    \/ PrinterSerialThread
    \/ ScaleSerialThread
    \/ PortClosedUnexpectedly
    \/ Serial_stop
    \/ \E payload \in PrinterPayloads : PrinterMqtt_on_message(PrintTopic, payload)
    \/ \E payload \in ScalePayloads : ScaleMqtt_on_message(CommandTopic, payload)

FairSpecSerialGap ==
    /\ InitSerialGap
    /\ [][NextSerialGap]_vars
    /\ WF_vars(PrinterSerialThread)
    /\ WF_vars(ScaleSerialThread)

\* Either MQTT worker started, the broker accepting, refusing and dropping
\* connections, with the connect outcomes recorded.
InitBroker ==
    /\ InitHandlers
    /\ qos \in QosLevels
    /\ main_pc = "off" /\ main_calls = <<>>
    /\ env = [msgs |-> 1, rx |-> 0, faults |-> 1, trace |-> MaxTrace, gets |-> 0]
    /\ daemon \in {"printer", "scale"}
    /\ serial_pc = "off" /\ mqtt_pc = "start"

NextBroker ==
    \/ ScaleMqttThread
    \/ PrinterMqttThread
    \/ Mqtt_stop
    \/ \E rc \in {0, CONNACK_REFUSED} : ScaleMqtt_on_connect(rc)
    \/ \E rc \in {0, CONNACK_REFUSED} : PrinterMqtt_on_connect(rc)
    \/ ScaleMqtt_on_disconnect
    \/ PrinterMqtt_on_disconnect
    \/ \E line \in ScaleLines : SerialThread_put(line)

FairSpecBroker ==
    /\ InitBroker
    /\ [][NextBroker]_vars
    /\ WF_vars(ScaleMqttThread)
    /\ WF_vars(PrinterMqttThread)

\* A serial handler constructed and not started; its _connect_serial and
\* _disconnect_serial are called from outside, every connect call recorded.
InitSerialApi ==
    /\ InitCommon
    /\ env = [msgs |-> 0, rx |-> 0, faults |-> 0, trace |-> MaxCalls, gets |-> 0]
    /\ daemon \in {"printer", "scale"}
    /\ serial_pc = "off" /\ mqtt_pc = "off"

NextSerialApi ==
    \/ Api_connect_serial
    \/ Api_disconnect_serial
    \/ PortClosedUnexpectedly

SpecSerialApi == InitSerialApi /\ [][NextSerialApi]_vars

\* A daemon as main() runs it: both handlers constructed, started by main(),
\* running side by side with the device and the broker, until the
\* KeyboardInterrupt, and main()'s shutdown after it.  The traffic is one
\* inbound message or, for the scale, one line from the instrument.
InitMain ==
    /\ InitHandlers
    /\ qos = MQTT_QOS_DEFAULT
    /\ env \in {[msgs |-> 1, rx |-> 0, faults |-> 0, trace |-> 0, gets |-> 0],
                [msgs |-> 0, rx |-> 2, faults |-> 0, trace |-> 0, gets |-> 0]}
    /\ daemon \in {"printer", "scale"}
    /\ daemon = "printer" => env.rx = 0
    /\ serial_pc = "off" /\ mqtt_pc = "off"
    /\ main_pc = "init" /\ main_calls = <<>>

NextMain ==
    \/ MainThread
    \/ Main_KeyboardInterrupt
    \/ PrinterSerialThread
    \/ ScaleSerialThread
    \/ ScaleMqttThread
    \/ PrinterMqttThread
    \/ \E rc \in {0, CONNACK_REFUSED} : ScaleMqtt_on_connect(rc)
    \/ \E rc \in {0, CONNACK_REFUSED} : PrinterMqtt_on_connect(rc)
    \/ ScaleMqtt_on_disconnect
    \/ PrinterMqtt_on_disconnect
    \/ \E payload \in PrinterPayloads :
          /\ loop_running /\ is_connected
          /\ PrinterMqtt_on_message(PrintTopic, payload)
    \/ \E payload \in ScalePayloads :
          /\ loop_running /\ is_connected
          /\ ScaleMqtt_on_message(CommandTopic, payload)

FairSpecMain ==
    /\ InitMain
    /\ [][NextMain]_vars
    /\ WF_vars(MainThread)
    /\ WF_vars(PrinterSerialThread)
    /\ WF_vars(ScaleSerialThread)
    /\ WF_vars(ScaleMqttThread)
    /\ WF_vars(PrinterMqttThread)

\* The same daemon with each worker's empty() test and get() call as two
\* statements, so that the other threads run between them.
PrinterSerialRun ==
    \/ PrinterSerial_RunStart
    \/ PrinterSerial_LoopExit
    \/ PrinterSerial_Reconnect
    \/ PrinterSerial_Connect
    \/ PrinterSerial_Connected
    \/ PrinterSerial_QueueNotEmpty
    \/ PrinterSerial_Get
    \/ PrinterSerial_Write
    \/ PrinterSerial_WakeUp

ScaleSerialRun ==
    \/ ScaleSerial_RunStart
    \/ ScaleSerial_LoopExit
    \/ ScaleSerial_Reconnect
    \/ ScaleSerial_Connect
    \/ ScaleSerial_Connected
    \/ ScaleSerial_QueueNotEmpty
    \/ ScaleSerial_Get
    \/ ScaleSerial_Write
    \/ ScaleSerial_Read
    \/ ScaleSerial_WakeUp

ScaleMqttRun ==
    \/ ScaleMqtt_RunStart
    \/ ScaleMqtt_LoopExit
    \/ ScaleMqtt_Cleanup
    \/ ScaleMqtt_Connect
    \/ ScaleMqtt_WaitDone
    \/ ScaleMqtt_Connected
    \/ ScaleMqtt_QueueNotEmpty
    \/ ScaleMqtt_Get
    \/ ScaleMqtt_Publish
    \/ ScaleMqtt_WakeUp

NextStatements ==
    \/ MainThread
    \/ Main_KeyboardInterrupt
    \/ PrinterSerialRun
    \/ ScaleSerialRun
    \/ ScaleMqttRun
    \/ PrinterMqttThread
    \/ \E rc \in {0, CONNACK_REFUSED} : ScaleMqtt_on_connect(rc)
    \/ \E rc \in {0, CONNACK_REFUSED} : PrinterMqtt_on_connect(rc)
    \/ ScaleMqtt_on_disconnect
    \/ PrinterMqtt_on_disconnect
    \/ \E payload \in PrinterPayloads :
          /\ loop_running /\ is_connected
          /\ PrinterMqtt_on_message(PrintTopic, payload)
    \/ \E payload \in ScalePayloads :
          /\ loop_running /\ is_connected
          /\ ScaleMqtt_on_message(CommandTopic, payload)

FairSpecStatements ==
    /\ InitMain
    /\ [][NextStatements]_vars
    /\ WF_vars(MainThread)
    /\ WF_vars(PrinterSerialRun)
    /\ WF_vars(ScaleSerialRun)
    /\ WF_vars(ScaleMqttRun)
    /\ WF_vars(PrinterMqttThread)

\* The scale's serial thread with MOCK_SERIAL_DEVICES set or not, commands
\* arriving, the device there or not, and stop() at any point.
InitMock ==
    /\ InitObjects
    /\ mock_mode \in BOOLEAN
    /\ qos = MQTT_QOS_DEFAULT
    /\ main_pc = "off" /\ main_calls = <<>>
    /\ env = [msgs |-> MaxMsgs, rx |-> 0, faults |-> 0, trace |-> 1, gets |-> 0]
    /\ daemon = "scale" /\ serial_pc = "start" /\ mqtt_pc = "off"

NextMock ==
    \/ ScaleSerialThread
    \/ ScaleSerial_MockIteration
    \/ Serial_stop
    \/ \E payload \in ScalePayloads : ScaleMqtt_on_message(CommandTopic, payload)

FairSpecMock ==
    /\ InitMock
    /\ [][NextMock]_vars
    /\ WF_vars(ScaleSerialThread)
    /\ WF_vars(ScaleSerial_MockIteration)

\* ------------------------------------------------------------- claims

\* What the serial handler holds between get() and the end of its iteration.
SerialHeld == IF daemon = "printer" THEN message_to_print ELSE command

WrittenOk == {i \in DOMAIN write_log : write_log[i].ok}

\* C1: in the printer daemon's serial handler every payload put on
\* mqtt_to_serial_queue is still in the queue, or in the hands of the current
\* iteration, or was written successfully: none disappears, whatever write
\* timeouts, serial exceptions, OS errors and port-not-open conditions occur.
C1_PrinterNoPayloadLost ==
    daemon = "printer" =>
        \A m \in {m2s_puts[i] : i \in DOMAIN m2s_puts} :
            Count(m2s_puts, m) =
                Count(mqtt_to_serial_queue, m) + Count(SerialHeld, m)
                + Cardinality({i \in WrittenOk : write_log[i].msg = m})

C1_Witness ==
    /\ daemon = "printer"
    /\ serial_pc = "loop"
    /\ Len(write_log) >= 2
    /\ ~write_log[1].ok
    /\ mqtt_to_serial_queue # <<>>

\* C2: in the printer daemon's serial handler a handle on which a write failed
\* has had close() called, is no longer self.ser, and no later write goes to it:
\* the next write uses a handle a new successful _connect_serial() opened.
C2_FailedHandleNeverWrittenAgain ==
    daemon = "printer" =>
        \A i \in DOMAIN write_log :
            ~write_log[i].ok =>
                /\ ser # write_log[i].h
                /\ \E k \in DOMAIN closed : closed[k] = write_log[i].h
                /\ \A j \in DOMAIN write_log :
                      j > i => write_log[j].h > write_log[i].h

C2_Witness ==
    /\ daemon = "printer"
    /\ Len(write_log) >= 2
    /\ ~write_log[1].ok
    /\ write_log[2].ok
    /\ write_log[2].msg = write_log[1].msg

\* A publish call in this step returned a non-success result code.
PublishFailedStep ==
    /\ daemon = "scale" /\ mqtt_pc = "publish"
    /\ publish_log' # publish_log
    /\ ~Last(publish_log').raised
    /\ Last(publish_log').rc # MQTT_ERR_SUCCESS

\* C3: in the scale daemon's MQTT handler, when publish returns a non-success
\* result code the dequeued payload is appended to serial_to_mqtt_queue in the
\* same iteration, the queue is as long as before the get() (plus what the
\* serial thread put meanwhile), and that iteration called publish once.
C3_PublishFailureRequeuesOnce ==
    [][PublishFailedStep =>
          /\ serial_to_mqtt_queue' = Append(serial_to_mqtt_queue, message_str[1])
          /\ Len(serial_to_mqtt_queue') =
                Len(got.queue) + (Len(s2m_puts) - got.puts)
          /\ Len(publish_log') = Len(publish_log) + 1
          /\ mqtt_pc' = "loop"]_vars

C3_Witness ==
    /\ daemon = "scale" /\ mqtt_pc = "loop"
    /\ publish_log # <<>>
    /\ ~Last(publish_log).raised
    /\ Last(publish_log).rc = MQTT_ERR_QUEUE_SIZE
    /\ Len(serial_to_mqtt_queue) = 2
    /\ Last(serial_to_mqtt_queue) = Last(publish_log).msg
    /\ serial_to_mqtt_queue[1] # Last(publish_log).msg

PublishedOk ==
    {i \in DOMAIN publish_log :
        ~publish_log[i].raised /\ publish_log[i].rc = MQTT_ERR_SUCCESS}

\* C5: in the scale daemon's MQTT handler every payload put on
\* serial_to_mqtt_queue is still in the queue, or in the hands of the current
\* iteration, or was published with a success result, whichever way the
\* hand-off fails (an exception of publish included).
C5_ScaleOutboundNoPayloadLost ==
    (daemon = "scale" /\ mqtt_pc # "off") =>
        \A m \in {s2m_puts[i] : i \in DOMAIN s2m_puts} :
            Count(s2m_puts, m) =
                Count(serial_to_mqtt_queue, m) + Count(message_str, m)
                + Cardinality({i \in PublishedOk : publish_log[i].msg = m})

\* C6: in the scale daemon's serial handler a command whose write failed
\* (write timeout, SerialException, OSError) is back in mqtt_to_serial_queue
\* (or dequeued again) and the failed handle is no longer self.ser.
C6_ScaleWriteFailureRequeues ==
    (daemon = "scale" /\ write_log # <<>> /\ ~Last(write_log).ok) =>
        /\ ser # Last(write_log).h
        /\ Count(mqtt_to_serial_queue, Last(write_log).msg)
             + Count(command, Last(write_log).msg) >= 1

\* The bytes read on connection h, and the lines enqueued on it.
BytesOn(h) ==
    LET OnH(r) == r.h = h
        rs == SelectSeq(read_log, OnH)
    IN [i \in DOMAIN rs |-> rs[i].byte]

LinesOn(h) ==
    LET OnH(r) == r.h = h
        rs == SelectSeq(conn_lines, OnH)
    IN [i \in DOMAIN rs |-> rs[i].line]

\* The LF-terminated segments of a byte sequence, decoded and stripped, that
\* are not empty; acc is the segment begun.
RECURSIVE SegmentsFrom(_, _)
SegmentsFrom(bytes, acc) ==
    IF bytes = <<>> THEN <<>>
    ELSE IF Head(bytes) = LF
         THEN (IF Strip(DecodeAsciiReplace(acc)) # <<>>
               THEN <<Strip(DecodeAsciiReplace(acc))>> ELSE <<>>)
              \o SegmentsFrom(Tail(bytes), <<>>)
         ELSE SegmentsFrom(Tail(bytes), Append(acc, Head(bytes)))

Segments(bytes) == SegmentsFrom(bytes, <<>>)

\* C8: for the bytes the scale serial handler reads on a connection, the lines
\* it enqueues on serial_to_mqtt_queue are exactly the LF-terminated segments
\* of those bytes, decoded and stripped, that are not empty, in order.
C8_LinesAreSegmentsOfConnection ==
    daemon = "scale" =>
        \A h \in 1..opens : LinesOn(h) = Segments(BytesOn(h))

\* The same over the first connection of a run, whose buffer starts empty.
FirstConnectionLinesAreSegments ==
    (daemon = "scale" /\ opens >= 1) => LinesOn(1) = Segments(BytesOn(1))

\* The queue a run's consumer drains, what was put on it, and what the consumer
\* handed to its transport with success.
ConsumerIsSerial == mqtt_pc = "off"

Puts == IF ConsumerIsSerial THEN m2s_puts ELSE s2m_puts

Delivered ==
    IF ConsumerIsSerial
    THEN LET Ok(w) == w.ok
             ws == SelectSeq(write_log, Ok)
         IN [i \in DOMAIN ws |-> ws[i].msg]
    ELSE LET Ok(r) == ~r.raised /\ r.rc = MQTT_ERR_SUCCESS
             rs == SelectSeq(publish_log, Ok)
         IN [i \in DOMAIN rs |-> rs[i].msg]

\* No write or publish failed so far and the link was not re-established.
NoFailureSoFar ==
    /\ Failures = 0
    /\ \A i \in DOMAIN publish_log : ~publish_log[i].raised
    /\ opens <= 1
    /\ connect_calls <= 1

\* The consumer's link is connected and its worker was not stopped.
LinkUp ==
    IF ConsumerIsSerial
    THEN ser # None /\ is_open /\ serial_running
    ELSE is_connected /\ mqtt_running

Healthy == NoFailureSoFar /\ LinkUp

\* C7: while the consuming link stays connected and no write or publish fails,
\* the payloads handed to the transport are the payloads put on the queue, each
\* once and in the order they were put (FIFO), and every payload put is
\* eventually handed over; for the scale's publish and both serial writes.
C7_FifoDeliveryWhileConnected ==
    /\ [](NoFailureSoFar => IsPrefix(Delivered, Puts))
    /\ \A n \in 1..MaxMsgs :
          (Len(Puts) >= n /\ Healthy) ~> (Len(Delivered) >= n \/ ~Healthy)

C7_Witness ==
    /\ daemon = "scale" /\ ~ConsumerIsSerial
    /\ NoFailureSoFar
    /\ Len(Puts) = 2 /\ Puts[1] # Puts[2]
    /\ Delivered = Puts
    /\ serial_to_mqtt_queue = <<>>

\* The topic a daemon's _on_message expects.
ExpectedTopic == IF daemon = "scale" THEN CommandTopic ELSE PrintTopic

\* _on_message was called in this step.
MessageArrived == msgs_in' # msgs_in

\* C9: _on_message of either MQTT handler leaves mqtt_to_serial_queue as it was
\* for a message with an empty payload or with a topic other than the expected
\* one.
C9_EmptyOrForeignNeverEnqueued ==
    [][(/\ MessageArrived
        /\ \/ Last(msgs_in').payload = <<>>
           \/ Last(msgs_in').topic # ExpectedTopic)
          => mqtt_to_serial_queue' = mqtt_to_serial_queue]_vars

C9_Witness ==
    /\ daemon = "printer"
    /\ Len(msgs_in) = 2
    /\ msgs_in[1] = [topic |-> PrintTopic, payload |-> <<65>>]
    /\ msgs_in[2] = [topic |-> PrintTopic, payload |-> <<>>]
    /\ mqtt_to_serial_queue = <<<<65>>>>

\* C10: for a non-empty message on the expected topic _on_message appends
\* exactly one payload to mqtt_to_serial_queue: the scale's handler the first
\* byte of the payload, the printer's handler the payload as text, one
\* character per byte, an ASCII byte as itself.
C10_OnMessageEnqueuesOne ==
    [][(/\ MessageArrived
        /\ Last(msgs_in').payload # <<>>
        /\ Last(msgs_in').topic = ExpectedTopic)
          => LET payload == Last(msgs_in').payload
             IN /\ Len(mqtt_to_serial_queue') = Len(mqtt_to_serial_queue) + 1
                /\ SubSeq(mqtt_to_serial_queue', 1, Len(mqtt_to_serial_queue))
                      = mqtt_to_serial_queue
                /\ LET put == Last(mqtt_to_serial_queue')
                   IN IF daemon = "scale"
                      THEN put = <<payload[1]>>
                      ELSE /\ Len(put) = Len(payload)
                           /\ \A i \in DOMAIN payload :
                                 payload[i] < 128 => put[i] = payload[i]]_vars

C10_Witness ==
    /\ daemon = "scale"
    /\ Len(msgs_in) = 2
    /\ msgs_in[2] = [topic |-> CommandTopic, payload |-> <<90, 84>>]
    /\ Len(mqtt_to_serial_queue) = 2
    /\ mqtt_to_serial_queue[2] = <<90>>

\* C11: the printer's _on_message, given a non-empty payload on the print
\* topic, appends to mqtt_to_serial_queue a text as long as the payload in
\* which every byte that is not ASCII is one replacement character and every
\* other byte is itself; no such message is dropped (b'\xff\xfe' gives two
\* replacement characters).
C11_UndecodableBytesReplaced ==
    [][(/\ daemon = "printer"
        /\ MessageArrived
        /\ Last(msgs_in').topic = PrintTopic
        /\ Last(msgs_in').payload # <<>>)
          => LET payload == Last(msgs_in').payload
                 text == [i \in DOMAIN payload |->
                            IF payload[i] >= 128 THEN REPLACEMENT ELSE payload[i]]
             IN /\ mqtt_to_serial_queue' = Append(mqtt_to_serial_queue, text)
                /\ payload = <<255, 254>> =>
                      Last(mqtt_to_serial_queue') = <<REPLACEMENT, REPLACEMENT>>]_vars

C11_Witness ==
    /\ daemon = "printer"
    /\ msgs_in # <<>>
    /\ Last(msgs_in) = [topic |-> PrintTopic, payload |-> <<255, 254>>]
    /\ mqtt_to_serial_queue # <<>>
    /\ Last(mqtt_to_serial_queue) = <<REPLACEMENT, REPLACEMENT>>

\* The device path was absent at the first two connect attempts of the serial
\* worker and present, and opened, at the third.
AbsentTwiceThenOpened(log) ==
    /\ Len(log) >= 3
    /\ ~log[1].exists /\ ~log[2].exists
    /\ log[3] = [exists |-> TRUE, open |-> "ok"]

\* A _connect_serial call was made in this step.
ConnectAttempted == Len(connect_log') > Len(connect_log)

\* C12: a serial worker that finds the device path absent goes to its
\* reconnect sleep without opening anything and without ending; when the path
\* is absent twice and present the third time, that third attempt is the one
\* successful open, nothing was written or taken off the queue during the gap,
\* and what was put on the queue is written afterwards, as long as the link
\* then stays up and no write fails.
C12_DeviceAbsentTwiceThenPresent ==
    /\ [][(ConnectAttempted /\ ~Last(connect_log').exists)
            => /\ serial_pc' = "sleep"
               /\ opens' = opens /\ ser' = None
               /\ UNCHANGED <<mqtt_to_serial_queue, write_log>>]_vars
    /\ [][(ConnectAttempted /\ Len(connect_log') = 3
                            /\ AbsentTwiceThenOpened(connect_log'))
            => /\ serial_pc' = "body"
               /\ opens' = 1 /\ ser' = 1 /\ is_open'
               /\ write_log' = <<>>
               /\ mqtt_to_serial_queue' = m2s_puts']_vars
    /\ \A n \in 1..MaxMsgs :
          (AbsentTwiceThenOpened(connect_log) /\ Len(Puts) >= n /\ Healthy)
             ~> (Len(Delivered) >= n \/ ~Healthy)

C12_Witness ==
    /\ daemon = "scale" /\ serial_pc # "off"
    /\ AbsentTwiceThenOpened(connect_log)
    /\ opens = 1
    /\ m2s_puts # <<>>
    /\ Delivered = m2s_puts
    /\ write_log[1].h = 1

\* The worker under study, where its run() is, and its running flag.
Worker == IF serial_pc # "off" THEN "serial" ELSE "mqtt"

WorkerPc == IF serial_pc # "off" THEN serial_pc ELSE mqtt_pc

WorkerRunning == IF serial_pc # "off" THEN serial_running ELSE mqtt_running

Terminated == WorkerPc \in {"done", "crashed"}

\* C13: for each of the four workers, once stop() was called (at any point
\* after start() returned, even before run() executed its first statement)
\* the run loop eventually exits, the thread ends, and running is False.
C13_StopAlwaysTerminates ==
    StopCalled(Worker) ~> (Terminated /\ ~WorkerRunning)

\* The same for a stop() that comes after run() has set running to True.
StopAfterRunBeganTerminates ==
    (StopCalled(Worker) /\ ~StoppedAt(Worker, "start"))
        ~> (Terminated /\ ~WorkerRunning)

\* A connect attempt (serial or broker) or a new reconnect sleep begins in
\* this step.
ConnectOrSleepBegins ==
    \/ connect_calls' # connect_calls
    \/ opens' # opens
    \/ WorkerPc' = "connect" /\ WorkerPc # "connect"
    \/ WorkerPc' = "sleep" /\ WorkerPc # "sleep"

\* C14: a worker whose stop() was called while it slept the reconnect delay,
\* or (MQTT) while it waited for the connection result, makes no further
\* connect attempt and begins no further reconnect sleep: from the sleep it
\* goes to the loop test and out, from the wait it leaves the loop; and it
\* ends.
C14_StopDuringBackoffExits ==
    /\ [][(StoppedAt(Worker, "sleep") \/ StoppedAt(Worker, "wait"))
            => ~ConnectOrSleepBegins]_vars
    /\ [](StoppedAt(Worker, "sleep")
            => WorkerPc \in {"sleep", "loop", "cleanup", "done"})
    /\ [](StoppedAt(Worker, "wait") => WorkerPc \in {"wait", "cleanup", "done"})
    /\ (StoppedAt(Worker, "sleep") \/ StoppedAt(Worker, "wait"))
          ~> (WorkerPc = "done" /\ ~WorkerRunning)

C14_Witness ==
    /\ daemon = "scale" /\ StoppedAt("serial", "sleep")
    /\ serial_pc = "done" /\ ~serial_running
    /\ opens = 0 /\ ser = None

\* The step from the end of the run loop to the end of run().
LoopExitCleanup == mqtt_pc = "cleanup" /\ mqtt_pc' = "done"

OnConnectCalled == connack_pending /\ ~connack_pending'

\* The result codes a CONNACK carries in the model.
ConnackCodes == {0, CONNACK_REFUSED}

\* C16: _on_connect stores the result code it is called with (the marker,
\* reset before the connect, holds a CONNACK code afterwards), and calls
\* subscribe, once and with the daemon's inbound topic, exactly when that
\* code is 0; for another code the subscriptions are unchanged.  Nothing
\* else subscribes.
C16_OnConnectSubscribesIffSuccess ==
    /\ [][OnConnectCalled =>
            /\ connection_rc = RC_UNSET
            /\ connection_rc' \in ConnackCodes
            /\ connection_rc' = 0 =>
                  subscribe_calls' = Append(subscribe_calls, ExpectedTopic)
            /\ connection_rc' # 0 => subscribe_calls' = subscribe_calls]_vars
    /\ [][~OnConnectCalled => subscribe_calls' = subscribe_calls]_vars

C16_Witness ==
    /\ daemon = "scale" /\ ~connack_pending
    /\ connection_rc = CONNACK_REFUSED
    /\ subscribe_calls = <<CommandTopic>>
    /\ connect_calls = 2

\* client.connect raises ConnectionRefusedError in this step.
ConnectRefused ==
    /\ Len(broker_log') > Len(broker_log)
    /\ Last(broker_log') = "refused"

\* n refusals followed by one connect call that returned.
RefusedThenAccepted(log) ==
    /\ log # <<>> /\ Last(log) = "ok"
    /\ \A i \in 1..(Len(log) - 1) : log[i] = "refused"

\* C17: a ConnectionRefusedError from client.connect leaves the MQTT worker
\* running and takes it to the reconnect sleep; run() ends only after stop()
\* or a failed setup; unless stopped, the worker calls connect again after a
\* refusal; every connect call is one attempt, so n refusals and one success
\* are n + 1 calls, and the CONNACK of the success leaves the session
\* connected.
C17_RefusedConnectRetried ==
    /\ [][ConnectRefused =>
            /\ mqtt_pc' = "sleep"
            /\ mqtt_running' /\ mqtt_running
            /\ loop_running' = loop_running]_vars
    /\ [](mqtt_pc = "done" => StopCalled("mqtt") \/ client = "none")
    /\ [](connect_calls = Len(broker_log))
    /\ \A k \in 1..(MaxConnects - 1) :
          (Len(broker_log) = k /\ Last(broker_log) = "refused")
             ~> (connect_calls > k \/ StopCalled("mqtt"))
    /\ [][(OnConnectCalled /\ connection_rc' = 0
              /\ RefusedThenAccepted(broker_log))
            => is_connected' /\ connect_calls' = Len(broker_log)]_vars

C17_Witness ==
    /\ daemon = "scale" /\ broker_log = <<"refused", "ok">>
    /\ connection_rc = 0 /\ is_connected
    /\ connect_calls = 2 /\ mqtt_running

\* client.connect is called in this step.
ConnectCalled == connect_calls' = connect_calls + 1

\* The wait for the connection result ends in this step.
WaitEnds == mqtt_pc = "wait" /\ mqtt_pc' # "wait"

\* C18: every client.connect call is made from the top of the loop with
\* connection_rc reset to -1, and is the only way into the wait; the wait
\* ends with the result recorded, with the marker still -1 (timeout) or with
\* the worker stopped; if it ends with a result other than 0 or none at all
\* and the worker not stopped, loop_stop() is called and the worker sleeps,
\* and the sleep ends before the next connect call; otherwise the network
\* loop is left as it is and the worker does not sleep.
C18_ConnectAttemptProtocol ==
    /\ [][ConnectCalled => mqtt_pc = "loop" /\ connection_rc' = RC_UNSET]_vars
    /\ [][(mqtt_pc # "wait" /\ mqtt_pc' = "wait")
            => ConnectCalled /\ loop_running']_vars
    /\ [][WaitEnds =>
            IF connection_rc # 0 /\ mqtt_running
            THEN mqtt_pc' = "sleep" /\ ~loop_running'
            ELSE /\ mqtt_pc' # "sleep" /\ loop_running' = loop_running
                 /\ connection_rc = 0 \/ ~mqtt_running]_vars
    /\ [](mqtt_pc = "wait" => connection_rc \in {RC_UNSET} \cup ConnackCodes)
    /\ \A k \in 1..(MaxConnects - 1) :
          (mqtt_pc = "sleep" /\ connect_calls = k)
             ~> (connect_calls > k \/ StopCalled("mqtt"))

C18_Witness ==
    /\ daemon = "printer" /\ mqtt_pc = "sleep" /\ broker_log = <<"ok">>
    /\ connection_rc = CONNACK_REFUSED /\ ~loop_running
    /\ mqtt_running /\ ~StopCalled("mqtt")

\* _connect_serial is called, and returns or raises, in this step.
ConnectSerialCalled ==
    /\ Len(api_calls') > Len(api_calls)
    /\ Last(api_calls').op = "connect"

\* The handler holds an open handle.
SerialConnected == ser # None /\ is_open

\* C19: after _connect_serial the handler holds an open handle, and the call
\* returned True, exactly when the device path existed and serial.Serial(...)
\* returned; when the path does not exist serial.Serial is not called; after
\* a connect that did not succeed the handler holds no handle.
C19_ConnectedIffPathExistsAndOpenSucceeds ==
    /\ [](Len(connect_log) = Count(api_calls, [op |-> "connect", result |-> "True"])
            + Count(api_calls, [op |-> "connect", result |-> "False"])
            + Count(api_calls, [op |-> "connect", result |-> "raised"]))
    /\ [][ConnectSerialCalled =>
            LET seen == Last(connect_log')
                succeeded == seen.exists /\ seen.open = "ok"
            IN  /\ Len(connect_log') = Len(connect_log) + 1
                /\ SerialConnected' <=> succeeded
                /\ Last(api_calls').result = "True" <=> succeeded
                /\ ~seen.exists => seen.open = "not_called" /\ opens' = opens
                /\ ~succeeded => ser' = None /\ ~is_open' /\ opens' = opens
                /\ succeeded => opens' = opens + 1 /\ ser' = opens']_vars

C19_Witness ==
    /\ daemon = "scale" /\ Len(api_calls) = 3
    /\ connect_log = <<ConnectRecord("absent"), ConnectRecord("serial_exception"),
                       ConnectRecord("ok")>>
    /\ SerialConnected /\ opens = 1

\* _disconnect_serial is called and returns in this step.
DisconnectSerialCalled ==
    /\ Len(api_calls') > Len(api_calls)
    /\ Last(api_calls').op = "disconnect"

\* C20: _disconnect_serial returns normally from every state and leaves the
\* handler without a handle; it calls close() on the handle exactly when the
\* handle was open, so no handle is closed twice and nothing is closed when
\* there was no connection or the connect had failed; a second call right
\* after the first changes nothing.
C20_DisconnectIdempotent ==
    /\ [][DisconnectSerialCalled =>
            /\ Last(api_calls').result = "None"
            /\ ser' = None /\ ~is_open'
            /\ closed' = IF SerialConnected THEN Append(closed, ser) ELSE closed
            /\ opens' = opens]_vars
    /\ [](\A h \in 1..opens : Count(closed, h) <= 1)
    /\ [][(DisconnectSerialCalled /\ api_calls # <<>>
              /\ Last(api_calls).op = "disconnect")
            => UNCHANGED <<ser, is_open, closed, opens>>]_vars

C20_Witness ==
    /\ daemon = "printer" /\ Len(api_calls) = 3
    /\ api_calls[1] = [op |-> "connect", result |-> "True"]
    /\ api_calls[2].op = "disconnect" /\ api_calls[3].op = "disconnect"
    /\ closed = <<1>> /\ ser = None /\ ~is_open

\* run() has called _setup_client.
SetupReturned == mqtt_pc \notin {"off", "start"}

\* C21: once _setup_client has returned, self.client is either the client
\* with its handlers attached, and the worker entered its loop, or None, and
\* run() has ended with the worker not running and without a connect call,
\* a started network loop or a cleanup call; a client without handlers never
\* exists.
C21_SetupNeverPartial ==
    /\ [](client \in {"none", "wired"})
    /\ [](SetupReturned => client = "wired" \/ mqtt_pc = "done")
    /\ []((SetupReturned /\ client = "none") =>
            /\ mqtt_pc = "done" /\ ~mqtt_running
            /\ connect_calls = 0 /\ broker_log = <<>>
            /\ ~loop_running /\ ~is_connected
            /\ cleanup_calls = <<>> /\ subscribe_calls = <<>>)
    /\ [][(mqtt_pc = "start" /\ mqtt_pc' = "loop")
            => client' = "wired" /\ mqtt_running']_vars

C21_Witness ==
    /\ daemon = "scale" /\ mqtt_pc = "done" /\ client = "none"
    /\ ~StopCalled("mqtt") /\ connect_calls = 0

\* The broker has been tried as often as the model lets a worker try; what
\* a worker does after that is not followed.
ConnectBudgetSpent == connect_calls = MaxConnects

\* C22: after the KeyboardInterrupt main() stops both handlers and returns,
\* whatever the workers do.  (It does not: join() is called without a
\* timeout, so main() waits for as long as a worker keeps running.)
C22_ShutdownReturns ==
    (main_pc = "stop_mqtt") ~> (main_pc = "exit" \/ ConnectBudgetSpent)

\* main() does return when each worker had begun run() before main() called
\* its stop().
ShutdownReturnsUnlessStopLost ==
    (main_pc = "stop_mqtt" /\ serial_pc # "start" /\ mqtt_pc # "start")
       ~> (main_pc = "exit")

\* The calls main() makes when both handlers are alive at their is_alive()
\* tests, and the shutdown calls it can make otherwise.
StartCalls == <<"serial.start", "mqtt.start">>
MqttShutdown == <<"mqtt.stop", "mqtt.join">>
SerialShutdown == <<"serial.stop", "serial.join">>
MainCallSequences ==
    {StartCalls \o m \o s : m \in {<<>>, MqttShutdown},
                            s \in {<<>>, SerialShutdown}}

\* C23: main() calls start once on the serial handler and once on the MQTT
\* handler, and nothing else before the KeyboardInterrupt; after it, it calls
\* stop and then join on the MQTT handler exactly if that thread is alive,
\* and, once that join has returned, stop and then join on the serial handler
\* exactly if that thread is alive; no call is made twice, and the serial
\* handler is stopped only when the MQTT thread has ended.
C23_StartOnceStopThenJoinInOrder ==
    /\ [](\E calls \in MainCallSequences : IsPrefix(main_calls, calls))
    /\ [](main_pc \in {"serve", "stop_mqtt"} => main_calls = StartCalls)
    /\ [][(main_pc = "stop_mqtt" /\ main_pc' # "stop_mqtt") =>
            IF MqttAlive
            THEN main_calls' = main_calls \o MqttShutdown /\ ~mqtt_running'
            ELSE main_calls' = main_calls /\ main_pc' = "stop_serial"]_vars
    /\ [][(main_pc = "stop_serial" /\ main_pc' # "stop_serial") =>
            /\ ~MqttAlive
            /\ IF SerialAlive
               THEN main_calls' = main_calls \o SerialShutdown /\ ~serial_running'
               ELSE main_calls' = main_calls /\ main_pc' = "exit"]_vars
    /\ [][main_calls' # main_calls =>
            main_pc \in {"init", "start_mqtt", "stop_mqtt", "stop_serial"}]_vars
    /\ [](main_pc = "exit" => ~MqttAlive /\ ~SerialAlive)

C23_Witness ==
    /\ main_pc = "exit"
    /\ main_calls = StartCalls \o MqttShutdown \o SerialShutdown
    /\ serial_pc = "done" /\ mqtt_pc = "done"

\* run() ended although nobody called stop() and the setup had not failed.
EndedByError ==
    /\ Terminated
    /\ ~StopCalled(Worker)
    /\ ~(Worker = "mqtt" /\ client = "none")

\* C24: a worker whose loop has begun ends only after stop(): no error of a
\* connect, read, write, publish or close step ends run().  (The scale serial
\* worker is ended by an exception of serial.Serial(...) that is not a
\* SerialException.)
C24_NoErrorEndsWorker == ~EndedByError

\* The other three workers are ended by no error.
OnlyScaleSerialEndedByError ==
    EndedByError => daemon = "scale" /\ serial_pc = "crashed"

\* The state each link owns.
SerialLinkState == <<serial_pc, serial_running, ser, is_open, buffer>>
BrokerLinkState == <<mqtt_pc, mqtt_running, client, connection_rc,
                     is_connected, loop_running>>

\* The line feed that ends a non-blank line is read in this step.
LineCompleted ==
    /\ Len(read_log') > Len(read_log)
    /\ Last(read_log').byte = LF
    /\ Strip(DecodeAsciiReplace(buffer)) # <<>>

\* C25: the links meet only in the queues.  A serial worker that is alive
\* always has a step it can take, and an MQTT worker too (until the model's
\* connect budget is spent), whatever state the other link is in; a step of
\* one worker changes nothing of the other link; a line completed by the
\* scale serial worker is put on the outbound queue whether or not the
\* broker session is up, and an inbound message is put on the command queue
\* whether or not the port is open.
C25_LinksNeverWait ==
    /\ [](SerialAlive => ENABLED (PrinterSerialThread \/ ScaleSerialThread))
    /\ []((MqttAlive /\ ~ConnectBudgetSpent)
            => ENABLED (ScaleMqttThread \/ PrinterMqttThread))
    /\ [][(serial_pc' # serial_pc /\ main_pc' = main_pc)
            => UNCHANGED BrokerLinkState]_vars
    /\ [][(mqtt_pc' # mqtt_pc /\ main_pc' = main_pc)
            => UNCHANGED SerialLinkState]_vars
    /\ [][LineCompleted =>
            serial_to_mqtt_queue' =
               Append(serial_to_mqtt_queue, Strip(DecodeAsciiReplace(buffer)))]_vars
    /\ [][MessageArrived =>
            /\ Len(mqtt_to_serial_queue') = Len(mqtt_to_serial_queue) + 1
            /\ UNCHANGED SerialLinkState]_vars

C25_Witness ==
    /\ daemon = "scale" /\ Len(s2m_puts) = 1
    /\ serial_to_mqtt_queue = s2m_puts
    /\ connect_calls = 1 /\ mqtt_pc = "sleep" /\ mqtt_running
    /\ connection_rc # 0 /\ ~is_connected

\* An exception of ser.write, ser.in_waiting or ser.read reaches the except
\* clauses of the scale serial worker in this step.
ScaleTransportFailed ==
    /\ daemon = "scale"
    /\ serial_pc \in {"write", "read"} /\ serial_pc' = "sleep"

\* Such an exception closes the port, drops the handle and leads to the
\* reconnect sleep.
TransportFailureDisconnects ==
    [][ScaleTransportFailed =>
        /\ ser' = None /\ ~is_open'
        /\ closed' = IF SerialConnected THEN Append(closed, ser) ELSE closed]_vars

\* The lines are enqueued in the order in which they were completed,
\* connection after connection.
LinesEnqueuedInOrder ==
    /\ s2m_puts = [i \in DOMAIN conn_lines |-> conn_lines[i].line]
    /\ \A i, j \in DOMAIN conn_lines :
          i <= j => conn_lines[i].h <= conn_lines[j].h

\* What is enqueued on a connection made after a failure is what was read
\* on it.
LinesAfterReconnectAreSegments ==
    daemon = "scale" => \A h \in 2..opens : LinesOn(h) = Segments(BytesOn(h))

\* C26: in the scale serial worker a transport exception during read or
\* write forces a disconnect and the reconnect sleep; the lines read on the
\* connection made afterwards are enqueued, behind the lines enqueued
\* before the failure.  (The lines enqueued after a reconnect are not the
\* lines read after it: they begin with the bytes the buffer held when the
\* connection failed.)
C26_ReconnectKeepsLinesFlowing ==
    /\ TransportFailureDisconnects
    /\ []LinesEnqueuedInOrder
    /\ []LinesAfterReconnectAreSegments

\* The disconnect, the sleep and the order do hold.
ReconnectAfterTransportFailure ==
    TransportFailureDisconnects /\ []LinesEnqueuedInOrder

\* The printer serial worker's ser.write returns in this step.
PrinterWroteOk ==
    /\ daemon = "printer" /\ serial_pc = "write"
    /\ Len(write_log') = Len(write_log) + 1
    /\ Last(write_log').ok

\* The successful writes of payload m so far.
OkWritesOf(m) ==
    Cardinality({i \in DOMAIN write_log : write_log[i].ok /\ write_log[i].msg = m})

\* C27: the printer serial worker takes the payload at the head of the
\* queue; when it then writes it with the port open and without an error, it
\* makes one ser.write call, on the open handle, with the payload encoded to
\* ASCII followed by one LF byte, and does not put the payload back; a
\* payload is written successfully at most as often as it was enqueued.
C27_PrinterWritesPayloadAndTerminatorOnce ==
    /\ [][(daemon = "printer" /\ serial_pc = "body" /\ serial_pc' = "write") =>
            /\ message_to_print' = <<Head(mqtt_to_serial_queue)>>
            /\ mqtt_to_serial_queue' = Tail(mqtt_to_serial_queue)]_vars
    /\ [][PrinterWroteOk =>
            LET w == Last(write_log')
            IN  /\ SerialConnected /\ w.h = ser
                /\ w.msg = message_to_print[1]
                /\ w.data = EncodeAsciiReplace(w.msg) \o <<LF>>
                /\ Len(w.data) = Len(w.msg) + 1
                /\ mqtt_to_serial_queue' = mqtt_to_serial_queue
                /\ message_to_print' = <<>>
                /\ serial_pc' = "loop"]_vars
    /\ [](daemon = "printer" =>
            \A i \in DOMAIN m2s_puts :
               OkWritesOf(m2s_puts[i]) <= Count(m2s_puts, m2s_puts[i]))

C27_Witness ==
    /\ daemon = "printer" /\ Len(m2s_puts) = 2
    /\ Len(write_log) = 2
    /\ write_log[1].ok /\ write_log[2].ok
    /\ write_log[2].msg = <<REPLACEMENT>>
    /\ write_log[2].data = <<QUESTION_MARK, LF>>
    /\ mqtt_to_serial_queue = <<>> /\ message_to_print = <<>>

\* The scale serial worker, holding a dequeued command, passes lines 99-101
\* in this step.
ScaleCommandHandled ==
    /\ daemon = "scale" /\ serial_pc = "write" /\ serial_pc' # "write"

\* One ser.write call is made in this step, with exactly the held command.
WroteCommandOnce ==
    /\ Len(write_log') = Len(write_log) + 1
    /\ Last(write_log').msg = command[1]
    /\ Last(write_log').data = command[1]
    /\ Last(write_log').h = ser

\* C28: the scale serial worker takes the command at the head of the command
\* queue and makes, for every command it took, exactly one ser.write call
\* whose bytes are the command, nothing appended.  (A command taken when the
\* handle reports the port closed is written not once but never.)
C28_ScaleWritesEachCommandOnce ==
    /\ [][(daemon = "scale" /\ serial_pc = "body" /\ serial_pc' = "write") =>
            /\ command' = <<Head(mqtt_to_serial_queue)>>
            /\ mqtt_to_serial_queue' = Tail(mqtt_to_serial_queue)]_vars
    /\ [][ScaleCommandHandled => WroteCommandOnce]_vars

\* With the port open when the write is due, there is exactly one write of
\* exactly the command.
ScaleWritesCommandOnceWhilePortOpen ==
    /\ [][(ScaleCommandHandled /\ SerialConnected) => WroteCommandOnce]_vars
    /\ [][(ScaleCommandHandled /\ ~SerialConnected) =>
            write_log' = write_log /\ command' = <<>>
            /\ mqtt_to_serial_queue' = mqtt_to_serial_queue]_vars

\* C29: every client.subscribe and every client.publish call of an MQTT
\* handler is made with qos = self.qos, the level the handler was configured
\* with: no other level is ever used, and a successful CONNACK's subscribe
\* and every publish do use it.
C29_UniformQos ==
    /\ [](qos_used \subseteq {qos})
    /\ [][(OnConnectCalled /\ connection_rc' = 0) => qos_used' = {qos}]_vars
    /\ [][Len(publish_log') > Len(publish_log) => qos_used' = {qos}]_vars
    /\ [][qos' = qos]_vars

C29_Witness ==
    /\ daemon = "scale" /\ qos = 1 /\ qos_used = {1}
    /\ subscribe_calls # <<>> /\ publish_log # <<>>

\* C30: a payload the printer's serial thread re-queues after a failed
\* hand-off goes behind everything that was in the queue at that moment;
\* so when two payloads were queued before the first was taken off, the
\* second hand-off is the second payload, whether the first failed or not.
PrinterHandoffEnded == serial_pc = "write" /\ serial_pc' = "loop"

RequeuedAtTail ==
    mqtt_to_serial_queue' \in
        {mqtt_to_serial_queue,
         Append(mqtt_to_serial_queue, message_to_print[1])}

SecondQueuedIsSecondHandedOff ==
    (Len(handoffs) >= 2 /\ handoffs[1].puts >= 2)
        => /\ handoffs[1].msg = m2s_puts[1]
           /\ handoffs[2].msg = m2s_puts[2]

ScaleRequeuesAtTail ==
    [][(mqtt_pc = "publish" /\ mqtt_pc' = "loop")
          => serial_to_mqtt_queue' \in
                {serial_to_mqtt_queue,
                 Append(serial_to_mqtt_queue, message_str[1])}]_vars

\* C31: when the connection drops, _on_disconnect leaves connection_rc, the
\* client, the running flag, the network loop and both queues as they were
\* and calls no client.connect; connect is called only by run() at the top of
\* its loop, when it is running and sees the client not connected.
OnDisconnectCalled ==
    is_connected /\ ~is_connected' /\ mqtt_pc' = mqtt_pc

C31_OnDisconnectOnlyLogs ==
    /\ [][OnDisconnectCalled =>
            UNCHANGED <<connection_rc, client, mqtt_running, loop_running,
                        connack_pending, queueVars, connect_calls>>]_vars
    /\ [][ConnectCalled =>
            /\ mqtt_pc = "loop" /\ mqtt_running /\ ~is_connected
            /\ ~OnDisconnectCalled]_vars

C31_Witness ==
    /\ daemon = "scale"
    /\ connect_calls = 2 /\ connack_pending
    /\ broker_log = <<"ok", "ok">>
    /\ subscribe_calls = <<CommandTopic>>

\* C32: a failure of one link does not reach the other.  The step in which
\* an MQTT worker returns from run() because _setup_client failed changes
\* nothing of the serial link or the queues; while main() then keeps
\* serving, a serial worker that has not died of an open error of its own
\* stays alive with its running flag set and a step to take; and the
\* handle, the client and the two running flags are written only by their
\* own worker (the flags also by main()'s stop()).
SetupFailedNow == mqtt_pc = "start" /\ mqtt_pc' = "done"

BrokerLinkGaveUp == mqtt_pc = "done" /\ client = "none" /\ main_pc = "serve"

BrokerCallback == OnConnectCalled \/ OnDisconnectCalled \/ MessageArrived

C32_NoCrossLinkPropagation ==
    /\ [][SetupFailedNow =>
            UNCHANGED <<SerialLinkState, queueVars, message_to_print,
                        command>>]_vars
    /\ []((BrokerLinkGaveUp /\ serial_pc # "crashed") =>
            /\ SerialAlive
            /\ serial_pc # "start" => serial_running
            /\ ENABLED (PrinterSerialThread \/ ScaleSerialThread))
    /\ [][(ser' # ser \/ is_open' # is_open) =>
            mqtt_pc' = mqtt_pc /\ ~BrokerCallback]_vars
    /\ [][serial_running' # serial_running =>
            mqtt_pc' = mqtt_pc /\ ~BrokerCallback
            /\ (serial_pc = "start" \/ main_pc' # main_pc)]_vars
    /\ [][client' # client => serial_pc' = serial_pc /\ mqtt_pc = "start"]_vars
    /\ [][mqtt_running' # mqtt_running =>
            serial_pc' = serial_pc
            /\ (mqtt_pc = "start" \/ main_pc' # main_pc)]_vars

C32_Witness ==
    /\ daemon = "scale" /\ BrokerLinkGaveUp
    /\ serial_running /\ is_open
    /\ s2m_puts # <<>> /\ serial_to_mqtt_queue = s2m_puts

\* C33: in the scale serial worker the line buffer is empty whenever a
\* connection has been opened and nothing has been read on it yet, so that no
\* enqueued line joins bytes of two connections.
C33_BufferEmptyOnNewConnection ==
    (daemon = "scale" /\ SerialConnected /\ BytesOn(ser) = <<>>)
        => buffer = <<>>

\* On the first connection of a run the buffer does start empty.
BufferEmptyOnFirstConnection ==
    (daemon = "scale" /\ SerialConnected /\ ser = 1 /\ BytesOn(ser) = <<>>)
        => buffer = <<>>

\* client.loop_start() is called in this step: run() calls it right after a
\* client.connect that returned.
LoopStartCalled == ConnectCalled /\ mqtt_pc' = "wait"

\* C34: an MQTT worker calls client.loop_start() only when no network loop
\* it started earlier is still running, also when it reconnects after an
\* established connection dropped.
C34_LoopStartOnlyWhenStopped ==
    [][LoopStartCalled => ~loop_running]_vars

\* After an attempt that failed, and on the first attempt, the loop is
\* started with no loop running.
LoopStartAfterFailureIsFresh ==
    [][(LoopStartCalled /\ connection_rc # 0) => ~loop_running]_vars

\* The serial worker takes a payload off mqtt_to_serial_queue in this step.
SerialDequeued == Len(mqtt_to_serial_queue') < Len(mqtt_to_serial_queue)

\* The serial worker passes the connection check at the top of its loop.
SerialIterationProceeds == serial_pc' = "body" /\ serial_pc # "body"

\* C35: a serial worker (not in mock mode) calls get() on
\* mqtt_to_serial_queue only in an iteration that passed the check at the top
\* of the loop, and it passes the check only with an open handle, found or
\* just opened; in every other step of the run, the reconnect, a failed
\* connect and the sleep included, the queue keeps what it holds and can only
\* grow.
C35_DequeueOnlyWhenConnected ==
    /\ [][SerialDequeued =>
            serial_pc = "body" /\ mqtt_to_serial_queue' = Tail(mqtt_to_serial_queue)]_vars
    /\ [][SerialIterationProceeds => (ser' # None /\ is_open')]_vars
    /\ [][serial_pc # "body" =>
            IsPrefix(mqtt_to_serial_queue, mqtt_to_serial_queue')]_vars

C35_Witness ==
    /\ daemon = "printer" /\ serial_pc = "sleep" /\ serial_running
    /\ ser = None /\ opens = 0
    /\ m2s_puts # <<>> /\ mqtt_to_serial_queue = m2s_puts

\* The scale's MQTT worker takes a payload off serial_to_mqtt_queue / calls
\* client.publish in this step.
OutboundDequeued == Len(serial_to_mqtt_queue') < Len(serial_to_mqtt_queue)

PublishCalled == Len(publish_log') > Len(publish_log)

OpenHandleGivenUp == SerialConnected /\ ser' # ser

HandleOpened == opens' = opens + 1

\* The run() of the serial worker has ended, by return or by an exception.
SerialWorkerExited == serial_pc \in {"done", "crashed"}

\* C37: a serial worker holds one handle at most and leaks none: it calls
\* serial.Serial(...) only while it holds no open handle, close() is called
\* on every open handle it lets go of, in that very step, no handle is
\* closed twice, and once run() has ended it holds no open handle.
C37_OneHandleNoLeak ==
    /\ [][HandleOpened =>
            /\ ~SerialConnected
            /\ ser' = opens' /\ is_open']_vars
    /\ [][OpenHandleGivenUp =>
            /\ closed' = Append(closed, ser)
            /\ ser' = None /\ ~is_open']_vars
    /\ [](\A i, j \in DOMAIN closed : closed[i] = closed[j] => i = j)
    /\ [](SerialConnected => ser = opens)
    /\ [](SerialWorkerExited => ~SerialConnected)

C37_Witness ==
    /\ daemon = "printer" /\ serial_pc = "done"
    /\ opens = 2 /\ closed = <<1, 2>>
    /\ ser = None /\ ~is_open

\* C38: a worker never calls get() on an empty queue.  Each queue is
\* shortened by one thread only, the one that tested it, so the queue a
\* worker found not empty is still not empty when its get() runs, whatever
\* the other threads did in between; the get() therefore returns at once
\* and the worker goes on to its next test of the running flag.
C38_GetNeverBlocks ==
    /\ [](serial_pc = "get" =>
            /\ mqtt_to_serial_queue # <<>>
            /\ ENABLED (PrinterSerial_Get \/ ScaleSerial_Get))
    /\ [](mqtt_pc = "get" =>
            /\ serial_to_mqtt_queue # <<>>
            /\ ENABLED ScaleMqtt_Get)
    /\ [][SerialDequeued => serial_pc = "get" /\ serial_pc' = "write"]_vars
    /\ [][OutboundDequeued => mqtt_pc = "get" /\ mqtt_pc' = "publish"]_vars

C38_Witness ==
    /\ daemon = "printer" /\ main_pc = "join_serial"
    /\ serial_pc = "get" /\ ~serial_running
    /\ mqtt_to_serial_queue # <<>>

\* The commands the serial worker has taken off mqtt_to_serial_queue.
CommandsTaken == Len(m2s_puts) - Len(mqtt_to_serial_queue)

\* C39: in mock mode the scale's serial worker opens no handle, calls
\* neither serial.Serial nor write nor read, and puts nothing on
\* serial_to_mqtt_queue; a command it takes off the queue is dropped; and
\* every command put on the queue is taken off it, unless stop() is called
\* first.
C39_MockModeTouchesNoPort ==
    /\ [](mock_mode =>
            /\ ser = None /\ ~is_open /\ opens = 0 /\ closed = <<>>
            /\ connect_log = <<>>
            /\ write_log = <<>> /\ read_log = <<>>
            /\ s2m_puts = <<>> /\ serial_to_mqtt_queue = <<>>
            /\ command = <<>>)
    /\ [][(mock_mode /\ SerialDequeued) =>
            /\ serial_pc = "loop" /\ serial_running
            /\ mqtt_to_serial_queue' = Tail(mqtt_to_serial_queue)]_vars
    /\ \A n \in 1..MaxMsgs :
          (mock_mode /\ Len(m2s_puts) >= n)
             ~> (CommandsTaken >= n \/ StopCalled("serial"))

C39_Witness ==
    /\ mock_mode /\ serial_running /\ ~StopCalled("serial")
    /\ Len(m2s_puts) = MaxMsgs /\ mqtt_to_serial_queue = <<>>
    /\ opens = 0 /\ write_log = <<>>

\* ---------------------------------------------------------------- C40
\* put() calls made on queue q: by its producer and by its consumer's re-queue.
PutsOn(q) ==
    (IF q = "m2s" THEN Len(m2s_puts) ELSE Len(s2m_puts)) + requeued[q]

\* The consumer of queue q is between its get() and the end of the hand-off.
ConsumerHolds(q) ==
    IF q = "m2s" THEN serial_pc = "write" ELSE mqtt_pc = "publish"

QueueOf(q) ==
    IF q = "m2s" THEN mqtt_to_serial_queue ELSE serial_to_mqtt_queue

\* C40: on every queue the task_done() calls never outnumber the put() calls,
\* and when the queue is empty and its consumer holds no payload every put(),
\* re-queues included, has been acknowledged by a task_done().
C40_EveryPutAcknowledged ==
    \A q \in {"m2s", "s2m"} :
        /\ task_done_calls[q] <= PutsOn(q)
        /\ (QueueOf(q) = <<>> /\ ~ConsumerHolds(q))
              => task_done_calls[q] = PutsOn(q)

\* The half of C40 that the code keeps: task_done() is never called more
\* often than put().
TaskDoneNeverExceedsPuts ==
    \A q \in {"m2s", "s2m"} : task_done_calls[q] <= PutsOn(q)

\* On the printer every re-queue leaves one put() that is never acknowledged:
\* the unfinished count is the queue, the payload in hand and the re-queues.
PrinterRequeuesStayUnfinished ==
    daemon = "printer" =>
        PutsOn("m2s") - task_done_calls.m2s =
            Len(mqtt_to_serial_queue)
            + (IF ConsumerHolds("m2s") THEN 1 ELSE 0) + requeued.m2s

====
